---- MODULE Spec2Model ----
(***************************************************************************)
(* Gato Garage: the progression and economy engine (GameState ledger,      *)
(* ProgressionSystem, ClickSystem, WorkerSystem, CarQueueSystem,           *)
(* JobBoardSystem, shops, PrestigeSystem, RepairCompletionService).        *)
(*                                                                         *)
(* Number representation.  JavaScript numbers are doubles; the model uses  *)
(* integers.  Money, XP, repair points and levels are plain integers.      *)
(* Multipliers and bonuses (incomeMultiplier, carValueBonus, xpMultiplier, *)
(* payoutMultiplier, comboMultiplier, ...) are held in hundredths: the     *)
(* value 1.05 is the integer 105.  Durations and clocks are milliseconds.  *)
(***************************************************************************)
EXTENDS Integers, Sequences, FiniteSets, TLC

VARIABLES
    state,            \* the GameState ledger (one record, fields named as in the source)
    comboMultiplier,  \* ClickSystem.comboMultiplier, in hundredths
    lastClickTime,    \* ClickSystem.lastClickTime (ms)
    spawnTimer,       \* CarQueueSystem.spawnTimer (ms)
    refreshTimer,     \* JobBoardSystem.refreshTimer (ms)
    idCounter,        \* number of contract ids handed out by JobBoardSystem.generateId
    now,              \* the wall clock read by Date.now() / performance.now() (ms)
    events,           \* the events EventBus.emit published during the last operation
    last,             \* the last operation: its name and return value, and a step count
    gameLoop,         \* the GameLoop object, the clock it reads and what its last frame did
    eventBus          \* EventBus.events for one event name, and the calls handlers received

vars == <<state, comboMultiplier, lastClickTime, spawnTimer, refreshTimer,
          idCounter, now, events, last, gameLoop, eventBus>>

\* the scheduler and the bus, which the operations of the engine leave alone
services == <<gameLoop, eventBus>>

systems == <<comboMultiplier, lastClickTime, spawnTimer, refreshTimer>>

-----------------------------------------------------------------------------
(* Bounds of the model (not program constants).                            *)

\* number of addXP calls explored by SpecXP
MaxAwards == 4

\* largest garageXP explored (keeps sums inside 32 bits)
MaxGarageXP == 800000000

\* number of completed repairs explored
MaxRepairs == 2

\* clicks explored per run
MaxClicks == 3

\* contract ids handed out
MaxContractIds == 4

\* latest clock value explored (ms)
MaxNow == 130000

\* levels explored per regular upgrade and per Nip upgrade, workers hired
MaxUpgradeLevel == 1
MaxNipLevel == 1
MaxWorkers == 1

\* lifetimeEarnings explored
MaxLifetimeEarnings == 4400000

\* clicks per behaviour of SpecCombo, and its clock (ms): clicks land up to
\* LastClickBy, the clock runs on to MaxComboNow
MaxComboClicks == 11
LastClickBy == 1000
MaxComboNow == 3000

\* clicks per behaviour of SpecRepair, and its clock (ms)
MaxRepairClicks == 51
MaxRepairNow == 51000

\* SpecLoad: the clock stops at MaxLoadNow
MaxLoadNow == 186000

\* SpecContracts: contract ids handed out (three offers at construction, one more
\* with every accepted contract)
MaxResolveIds == 5

\* SpecLift: grants stop once lifetimeEarnings would pass MaxLiftEarnings
MaxLiftEarnings == 1000000

\* SpecLedger: grants stop once lifetimeEarnings would pass MaxLedgerEarnings
MaxLedgerEarnings == 5500

\* SpecLoop: the clock of the loop stops at MaxLoopClock (thirds of a millisecond)
MaxLoopClock == 900

\* SpecBus: handlers registered, and calls one handler receives
MaxHandlers == 3
MaxCalls == 2

-----------------------------------------------------------------------------
(* Arithmetic helpers.                                                     *)

Min(a, b) == IF a <= b THEN a ELSE b

Max(a, b) == IF a >= b THEN a ELSE b

\* floor(a * b / c) for a, b >= 0 and c > 0, split so that no product leaves 32 bits
MulDivFloor(a, b, c) == (a \div c) * b + (((a % c) * b) \div c)

RECURSIVE SumSeq(_)
SumSeq(s) == IF s = <<>> THEN 0 ELSE Head(s) + SumSeq(Tail(s))

-----------------------------------------------------------------------------
(* Static data tables.                                                     *)

CarIds == {"hatchback", "sedan", "suv", "pickup", "sportsCar", "vintage", "cyberCar", "hypercar"}

CarData ==
    [ hatchback |-> [id |-> "hatchback", repairCost |-> 50,   baseValue |-> 25,   rarity |-> "common"],
      sedan     |-> [id |-> "sedan",     repairCost |-> 100,  baseValue |-> 50,   rarity |-> "common"],
      suv       |-> [id |-> "suv",       repairCost |-> 200,  baseValue |-> 120,  rarity |-> "common"],
      pickup    |-> [id |-> "pickup",    repairCost |-> 300,  baseValue |-> 180,  rarity |-> "uncommon"],
      sportsCar |-> [id |-> "sportsCar", repairCost |-> 500,  baseValue |-> 350,  rarity |-> "uncommon"],
      vintage   |-> [id |-> "vintage",   repairCost |-> 800,  baseValue |-> 600,  rarity |-> "rare"],
      cyberCar  |-> [id |-> "cyberCar",  repairCost |-> 1500, baseValue |-> 1200, rarity |-> "rare"],
      hypercar  |-> [id |-> "hypercar",  repairCost |-> 3000, baseValue |-> 2500, rarity |-> "legendary"] ]

\* ProgressionSystem.CAR_UNLOCKS: milestone level -> car ids
UnlockLevels == {1, 3, 6, 10, 15, 22, 30, 40}

CAR_UNLOCKS ==
    [l \in UnlockLevels |->
        CASE l = 1  -> {"hatchback"}
          [] l = 3  -> {"sedan"}
          [] l = 6  -> {"suv"}
          [] l = 10 -> {"pickup"}
          [] l = 15 -> {"sportsCar"}
          [] l = 22 -> {"vintage"}
          [] l = 30 -> {"cyberCar"}
          [] l = 40 -> {"hypercar"}]

\* Math.floor(100 * Math.pow(1.15, level - 1)) for level = 1..100, as IEEE doubles
\* evaluate it (100 * 1.15 is 114.99999999999999, so level 2 costs 114, not 115)
XpForLevel ==
    << 100, 114, 132, 152, 174, 201, 231, 266, 305, 351,
       404, 465, 535, 615, 707, 813, 935, 1076, 1237, 1423,
       1636, 1882, 2164, 2489, 2862, 3291, 3785, 4353, 5006, 5757,
       6621, 7614, 8756, 10069, 11580, 13317, 15315, 17612, 20254, 23292,
       26786, 30804, 35424, 40738, 46849, 53876, 61958, 71252, 81940, 94231,
       108365, 124620, 143313, 164810, 189532, 217962, 250656, 288255, 331493, 381217,
       438399, 504159, 579783, 666751, 766764, 881778, 1014045, 1166152, 1341075, 1542236,
       1773572, 2039607, 2345548, 2697381, 3101988, 3567286, 4102379, 4717736, 5425397, 6239206,
       7175087, 8251351, 9489053, 10912411, 12549273, 14431664, 16596414, 19085876, 21948758, 25241071,
       29027232, 33381317, 38388515, 44146792, 50768811, 58384132, 67141752, 77213015, 88794967, 102114213 >>

\* ProgressionSystem.generateXPTable: table[0] = 0, table[n] = table[n-1] + xpForLevel(n).
\* The JavaScript array is 0-based; XP_TABLE[i] here is table[i] for i in 0..100.
RECURSIVE generateXPTable(_)
generateXPTable(n) ==
    IF n = 0 THEN (0 :> 0)
    ELSE LET t == generateXPTable(n - 1)
         IN  t @@ (n :> t[n - 1] + XpForLevel[n])

XP_TABLE == generateXPTable(Len(XpForLevel))

-----------------------------------------------------------------------------
(* Events.  Every event is one record with these fields:                   *)
(*   type - the GameEvents name;  n - its numeric payload;                 *)
(*   auto - the isAutoRepair flag of CAR_REPAIRED ("true", "false", or     *)
(*          "absent" when the payload has no such field);                  *)
(*   res  - the contractResult of CAR_REPAIRED: "inTime", "late", "null"   *)
(*          or "absent";  snap - a snapshot taken when the event fired.    *)
(* XP_EARNED also carries totalXP, and CAR_REPAIRED carries held: whether  *)
(* the car of the payload is still the ledger's currentCar as it fires.    *)

Ev(type, n, auto, res, snap) ==
    [type |-> type, n |-> n, auto |-> auto, res |-> res, snap |-> snap]

SimpleEv(type, n) == Ev(type, n, "absent", "absent", 0)

CountEv(evs, type) == Cardinality({i \in 1..Len(evs) : evs[i].type = type})

-----------------------------------------------------------------------------
(* GameState.                                                              *)

NoCar == [id |-> "none"]

NoContract == [id |-> 0]

UpgradeIds == {"wrench", "toolbox", "impactDriver", "hydraulicLift",
               "diagnosticComputer", "neonSign", "turboCharger", "cyberTools"}

NipUpgradeIds == {"sharpenedPaws", "tunedCrew", "loyalClients", "comboInstinct",
                  "quickDispatch", "wisdomManuals"}

WorkerIds == {"juniorMaid", "seniorMaid", "masterMaid", "gearhead", "roboMaid", "legendaryMaid"}

\* The shop tables.  costGrowth and fractional effect values are in hundredths.
\* cost[level + 1] is Math.floor(baseCost * Math.pow(costGrowth, level)) as IEEE
\* doubles evaluate it (e.g. toolbox at level 1 costs 170, not 171): for the levels
\* 0..maxLevel of an upgrade, and for 0..5 workers owned.
UpgradeData ==
    [ wrench |-> [baseCost |-> 15, costGrowth |-> 112, maxLevel |-> 100,
              effect |-> [type |-> "clickPower", value |-> 1],
              cost |-> <<15, 16, 18, 21, 23, 26, 29, 33, 37, 41, 46, 52, 58, 65, 73,
                        82, 91, 102, 115, 129, 144, 162, 181, 203, 227, 255, 285, 319,
                        358, 401, 449, 503, 563, 631, 707, 791, 887, 993, 1112, 1246,
                        1395, 1563, 1750, 1960, 2196, 2459, 2754, 3085, 3455, 3870,
                        4335, 4855, 5437, 6090, 6821, 7639, 8556, 9583, 10733, 12021,
                        13463, 15079, 16889, 18915, 21185, 23728, 26575, 29764, 33336,
                        37336, 41816, 46835, 52455, 58749, 65799, 73695, 82539, 92444,
                        103537, 115961, 129877, 145462, 162918, 182468, 204364, 228888,
                        256354, 287117, 321571, 360159, 403379, 451784, 505998, 566718,
                        634724, 710891, 796198, 891742, 998751, 1118601, 1252833>>],
      toolbox |-> [baseCost |-> 150, costGrowth |-> 114, maxLevel |-> 50,
              effect |-> [type |-> "clickPower", value |-> 5],
              cost |-> <<150, 170, 194, 222, 253, 288, 329, 375, 427, 487, 556, 633,
                        722, 823, 939, 1070, 1220, 1391, 1586, 1808, 2061, 2350, 2679,
                        3054, 3481, 3969, 4524, 5158, 5880, 6703, 7642, 8712, 9932,
                        11322, 12907, 14715, 16775, 19123, 21800, 24853, 28332, 32299,
                        36820, 41975, 47852, 54551, 62189, 70895, 80820, 92135, 105034>>],
      impactDriver |-> [baseCost |-> 1000, costGrowth |-> 115, maxLevel |-> 30,
              effect |-> [type |-> "clickPower", value |-> 15],
              cost |-> <<1000, 1150, 1322, 1520, 1749, 2011, 2313, 2660, 3059, 3517,
                        4045, 4652, 5350, 6152, 7075, 8137, 9357, 10761, 12375, 14231,
                        16366, 18821, 21644, 24891, 28625, 32918, 37856, 43535, 50065,
                        57575, 66211>>],
      hydraulicLift |-> [baseCost |-> 8000, costGrowth |-> 116, maxLevel |-> 20,
              effect |-> [type |-> "clickPower", value |-> 50],
              cost |-> <<8000, 9280, 10764, 12487, 14485, 16802, 19491, 22609, 26227,
                        30423, 35291, 40938, 47488, 55086, 63900, 74124, 85984, 99741,
                        115700, 134212, 155686>>],
      diagnosticComputer |-> [baseCost |-> 5000, costGrowth |-> 150, maxLevel |-> 10,
              effect |-> [type |-> "carValueBonus", value |-> 10],
              cost |-> <<5000, 7500, 11250, 16875, 25312, 37968, 56953, 85429, 128144,
                        192216, 288325>>],
      neonSign |-> [baseCost |-> 25000, costGrowth |-> 200, maxLevel |-> 10,
              effect |-> [type |-> "incomeMultiplier", value |-> 5],
              cost |-> <<25000, 50000, 100000, 200000, 400000, 800000, 1600000,
                        3200000, 6400000, 12800000, 25600000>>],
      turboCharger |-> [baseCost |-> 100000, costGrowth |-> 118, maxLevel |-> 15,
              effect |-> [type |-> "clickPower", value |-> 200],
              cost |-> <<100000, 118000, 139240, 164303, 193877, 228775, 269955,
                        318547, 375885, 443545, 523383, 617592, 728759, 859935,
                        1014724, 1197374>>],
      cyberTools |-> [baseCost |-> 1000000, costGrowth |-> 120, maxLevel |-> 10,
              effect |-> [type |-> "clickPower", value |-> 1000],
              cost |-> <<1000000, 1200000, 1440000, 1727999, 2073600, 2488319, 2985983,
                        3583180, 4299816, 5159780, 6191736>>] ]

NipUpgradeData ==
    [ sharpenedPaws |-> [baseCost |-> 1, costGrowth |-> 185, maxLevel |-> 10,
              effect |-> [type |-> "clickPowerMultiplier", value |-> 20],
              cost |-> <<1, 1, 3, 6, 11, 21, 40, 74, 137, 253, 469>>],
      tunedCrew |-> [baseCost |-> 2, costGrowth |-> 190, maxLevel |-> 10,
              effect |-> [type |-> "autoRepairMultiplier", value |-> 18],
              cost |-> <<2, 3, 7, 13, 26, 49, 94, 178, 339, 645, 1226>>],
      loyalClients |-> [baseCost |-> 2, costGrowth |-> 195, maxLevel |-> 10,
              effect |-> [type |-> "carValueBonus", value |-> 12],
              cost |-> <<2, 3, 7, 14, 28, 56, 109, 214, 418, 815, 1589>>],
      comboInstinct |-> [baseCost |-> 3, costGrowth |-> 200, maxLevel |-> 8,
              effect |-> [type |-> "comboMaxBonus", value |-> 20],
              cost |-> <<3, 6, 12, 24, 48, 96, 192, 384, 768>>],
      quickDispatch |-> [baseCost |-> 3, costGrowth |-> 205, maxLevel |-> 8,
              effect |-> [type |-> "queueSpawnReduction", value |-> 8],
              cost |-> <<3, 6, 12, 25, 52, 108, 222, 456, 935>>],
      wisdomManuals |-> [baseCost |-> 4, costGrowth |-> 220, maxLevel |-> 8,
              effect |-> [type |-> "xpMultiplier", value |-> 10],
              cost |-> <<4, 8, 19, 42, 93, 206, 453, 997, 2195>>] ]

WorkerData ==
    [ juniorMaid |-> [baseCost |-> 50, costGrowth |-> 115, repairRate |-> 1,
              cost |-> <<50, 57, 66, 76, 87, 100>>],
      seniorMaid |-> [baseCost |-> 500, costGrowth |-> 114, repairRate |-> 5,
              cost |-> <<500, 570, 649, 740, 844, 962>>],
      masterMaid |-> [baseCost |-> 5000, costGrowth |-> 113, repairRate |-> 25,
              cost |-> <<5000, 5649, 6384, 7214, 8152, 9212>>],
      gearhead |-> [baseCost |-> 50000, costGrowth |-> 112, repairRate |-> 100,
              cost |-> <<50000, 56000, 62720, 70246, 78675, 88117>>],
      roboMaid |-> [baseCost |-> 500000, costGrowth |-> 111, repairRate |-> 500,
              cost |-> <<500000, 555000, 616050, 683815, 759035, 842529>>],
      legendaryMaid |-> [baseCost |-> 10000000, costGrowth |-> 110, repairRate |-> 5000,
              cost |-> <<10000000, 11000000, 12100000, 13310000, 14641000, 16105100>>] ]

\* GameState.reset(): every field at its new-run default
reset ==
    [ currency |-> 0, totalEarned |-> 0, totalSpent |-> 0,
      carsRepaired |-> 0,
      totalClicks |-> 0, clickPower |-> 1,
      carValueBonus |-> 0, incomeMultiplier |-> 100,
      clickPowerMultiplier |-> 100, autoRepairMultiplier |-> 100,
      queueSpawnMultiplier |-> 100000000,   \* in units of 10^-8
      xpMultiplier |-> 100, comboMaxBonus |-> 0, comboGainBonus |-> 0,
      upgrades |-> [u \in UpgradeIds |-> 0],
      nipUpgrades |-> [u \in NipUpgradeIds |-> 0],
      achievements |-> {},
      workers |-> <<>>,
      workerCounts |-> [w \in WorkerIds |-> 0],
      currentCar |-> NoCar, carQueue |-> <<>>,
      jobContracts |-> <<>>, activeJobContract |-> NoContract,
      contractsCompleted |-> 0, contractsFailed |-> 0,
      autoRepairRate |-> 0,
      garageXP |-> 0, garageLevel |-> 1, currentTier |-> 1,
      unlockedCars |-> {"hatchback"},
      prestigeCurrency |-> 0, totalPrestigeEarned |-> 0,
      lifetimeEarnings |-> 0, prestigeMultiplier |-> 100 ]

\* The record threaded through one operation: the ledger, the contract id
\* counter, the events published so far and what the operation returns.
World(s, ids) == [s |-> s, ids |-> ids, ev |-> <<>>, ret |-> "none", num |-> 0]

\* return a boolean or null (as "true", "false", "null") or a number
Return(w, v) == [w EXCEPT !.ret = v]

ReturnNum(w, n) == [w EXCEPT !.num = n]

Emit(w, e) == [w EXCEPT !.ev = Append(@, e)]

-----------------------------------------------------------------------------
(* ProgressionSystem.                                                      *)

\* calculateLevelFromXP: binary search for the highest index with table[index] <= xp
RECURSIVE LevelSearch(_, _, _)
LevelSearch(left, right, xp) ==
    IF left < right
    THEN LET mid == (left + right + 1) \div 2
         IN  IF XP_TABLE[mid] <= xp
             THEN LevelSearch(mid, right, xp)
             ELSE LevelSearch(left, mid - 1, xp)
    ELSE left + 1

\* mutant: the search starts at index 1, so it can never answer level 1
calculateLevelFromXP_skipFirst(xp) == LevelSearch(1, Len(XpForLevel), xp)

calculateLevelFromXP(xp) == LevelSearch(0, Len(XpForLevel), xp)

\* mutant: tier bands 1-10, 11-20, ... instead of 1-9, 10-19, ...
getCurrentTier_bandsOfTen(s) == ((s.garageLevel - 1) \div 10) + 1

\* getCurrentTier: Math.floor(garageLevel / 10) + 1
getCurrentTier(s) == (s.garageLevel \div 10) + 1

\* checkCarUnlocks(newLevel): only the entry of CAR_UNLOCKS keyed by newLevel itself
checkCarUnlocks(w, newLevel) ==
    IF newLevel \notin UnlockLevels THEN w
    ELSE LET fresh == CAR_UNLOCKS[newLevel] \ w.s.unlockedCars
         IN  [w EXCEPT !.s.unlockedCars = @ \cup fresh,
                       !.ev = @ \o [i \in 1..Cardinality(fresh) |->
                                        SimpleEv("CAR_UNLOCKED", newLevel)]]

\* addXP(amount)
addXP(w, amount) ==
    IF amount <= 0 THEN w
    ELSE LET oldLevel == w.s.garageLevel
             oldTier  == w.s.currentTier
             w1 == [w EXCEPT !.s.garageXP = @ + amount]
             newLevel == calculateLevelFromXP(w1.s.garageXP)
             \* XP_EARNED fires before garageLevel is written; snap is garageLevel then
             w2 == CHOOSE out \in
                      {Emit(x, [type |-> "XP_EARNED", n |-> amount, auto |-> "absent",
                                res |-> "absent", snap |-> x.s.garageLevel,
                                totalXP |-> x.s.garageXP]) : x \in {w1}} : TRUE
         IN  IF newLevel > oldLevel
             THEN LET w3 == [w2 EXCEPT !.s.garageLevel = newLevel]
                      newTier == getCurrentTier(w3.s)
                      tierChanged == newTier > oldTier
                      w4 == IF tierChanged THEN [w3 EXCEPT !.s.currentTier = newTier] ELSE w3
                      w5 == checkCarUnlocks(w4, newLevel)
                      w6 == Emit(w5, SimpleEv("LEVEL_UP", newLevel))
                  IN  IF tierChanged THEN Emit(w6, SimpleEv("TIER_UP", newTier)) ELSE w6
             ELSE w2

-----------------------------------------------------------------------------
(* AchievementSystem.                                                      *)

AchievementList ==
    << [id |-> "firstClick",      type |-> "totalClicks",   value |-> 1],
       [id |-> "clickApprentice", type |-> "totalClicks",   value |-> 100],
       [id |-> "clickMaster",     type |-> "totalClicks",   value |-> 1000],
       [id |-> "clickLegend",     type |-> "totalClicks",   value |-> 10000],
       [id |-> "gettingStarted",  type |-> "totalEarned",   value |-> 100],
       [id |-> "moneyMaker",      type |-> "totalEarned",   value |-> 10000],
       [id |-> "wealthyMechanic", type |-> "totalEarned",   value |-> 100000],
       [id |-> "garageEmpire",    type |-> "totalEarned",   value |-> 1000000],
       [id |-> "firstRepair",     type |-> "carsRepaired",  value |-> 1],
       [id |-> "tenCars",         type |-> "carsRepaired",  value |-> 10],
       [id |-> "carCollector",    type |-> "carsRepaired",  value |-> 100],
       [id |-> "masterMechanic",  type |-> "carsRepaired",  value |-> 1000],
       [id |-> "firstHire",       type |-> "totalWorkers",  value |-> 1],
       [id |-> "smallTeam",       type |-> "totalWorkers",  value |-> 5],
       [id |-> "fullStaff",       type |-> "totalWorkers",  value |-> 10],
       [id |-> "catArmy",         type |-> "totalWorkers",  value |-> 25],
       [id |-> "firstUpgrade",    type |-> "totalUpgrades", value |-> 1],
       [id |-> "toolEnthusiast",  type |-> "totalUpgrades", value |-> 10],
       [id |-> "fullyEquipped",   type |-> "totalUpgrades", value |-> 50] >>

UpgradeList == << "wrench", "toolbox", "impactDriver", "hydraulicLift",
                  "diagnosticComputer", "neonSign", "turboCharger", "cyberTools" >>

NipUpgradeList == << "sharpenedPaws", "tunedCrew", "loyalClients", "comboInstinct",
                     "quickDispatch", "wisdomManuals" >>

getTotalUpgradesPurchased(s) ==
    SumSeq([i \in 1..Len(UpgradeList) |-> s.upgrades[UpgradeList[i]]])

checkCondition(s, a) ==
    CASE a.type = "totalClicks"   -> s.totalClicks >= a.value
      [] a.type = "totalEarned"   -> s.totalEarned >= a.value
      [] a.type = "carsRepaired"  -> s.carsRepaired >= a.value
      [] a.type = "totalWorkers"  -> Len(s.workers) >= a.value
      [] a.type = "totalUpgrades" -> getTotalUpgradesPurchased(s) >= a.value
      [] OTHER -> FALSE

\* checkAchievements: unlock, in list order, every achievement not yet unlocked
\* whose condition holds (the unlock timestamp is not kept, only the id)
checkAchievements(w) ==
    LET earned == SelectSeq(AchievementList,
                      LAMBDA a : a.id \notin w.s.achievements /\ checkCondition(w.s, a))
    IN  [w EXCEPT !.s.achievements = @ \cup {earned[i].id : i \in 1..Len(earned)},
                  !.ev = @ \o [i \in 1..Len(earned) |->
                                   SimpleEv("ACHIEVEMENT_UNLOCKED", earned[i].value)]]

\* the events AchievementSystem subscribes to
AchievementTriggers ==
    {"CLICK_PERFORMED", "CURRENCY_EARNED", "CAR_REPAIRED", "WORKER_HIRED", "UPGRADE_PURCHASED"}

\* EventBus.emit with the subscribers that write the ledger run synchronously
Publish(w, e) ==
    IF e.type \in AchievementTriggers THEN checkAchievements(Emit(w, e)) ELSE Emit(w, e)

-----------------------------------------------------------------------------
(* GameState: currency and derived stats.                                  *)

\* addCurrency(amount): Math.floor(amount * incomeMultiplier * prestigeMultiplier)
addCurrency(w, amount) ==
    LET adjustedAmount ==
            MulDivFloor(amount, w.s.incomeMultiplier * w.s.prestigeMultiplier, 10000)
        w1 == [w EXCEPT !.s.currency = @ + adjustedAmount,
                        !.s.totalEarned = @ + adjustedAmount,
                        !.s.lifetimeEarnings = @ + adjustedAmount]
        w2 == Publish(w1, SimpleEv("CURRENCY_CHANGED", w1.s.currency))
        w3 == Publish(w2, SimpleEv("CURRENCY_EARNED", adjustedAmount))
    IN  ReturnNum(w3, adjustedAmount)

\* mutant: the deduction happens without the affordability check
spendCurrency_unchecked(w, amount) ==
    LET w1 == [w EXCEPT !.s.currency = @ - amount, !.s.totalSpent = @ + amount]
        w2 == Publish(w1, SimpleEv("CURRENCY_CHANGED", w1.s.currency))
    IN  Return(Publish(w2, SimpleEv("CURRENCY_SPENT", amount)), "true")

\* spendCurrency(amount)
spendCurrency(w, amount) ==
    IF w.s.currency >= amount
    THEN LET w1 == [w EXCEPT !.s.currency = @ - amount, !.s.totalSpent = @ + amount]
             w2 == Publish(w1, SimpleEv("CURRENCY_CHANGED", w1.s.currency))
         IN  Return(Publish(w2, SimpleEv("CURRENCY_SPENT", amount)), "true")
    ELSE Return(w, "false")

\* spendPrestigeCurrency(amount)
spendPrestigeCurrency(w, amount) ==
    IF w.s.prestigeCurrency >= amount
    THEN LET w1 == [w EXCEPT !.s.prestigeCurrency = @ - amount]
         IN  Return(Publish(w1, SimpleEv("PRESTIGE_CURRENCY_CHANGED",
                                         w1.s.prestigeCurrency)), "true")
    ELSE Return(w, "false")

canAfford(s, amount) == s.currency >= amount

\* calculateAutoRepairRate: sum of repairRate times autoRepairMultiplier (hundredths
\* of a repair point per second)
calculateAutoRepairRate(s) ==
    [s EXCEPT !.autoRepairRate =
        SumSeq([i \in 1..Len(s.workers) |-> WorkerData[s.workers[i]].repairRate])
            * s.autoRepairMultiplier]

applyUpgradeEffect(s, effect) ==
    CASE effect.type = "clickPower"       -> [s EXCEPT !.clickPower = @ + effect.value]
      [] effect.type = "carValueBonus"    -> [s EXCEPT !.carValueBonus = @ + effect.value]
      [] effect.type = "incomeMultiplier" -> [s EXCEPT !.incomeMultiplier = @ + effect.value]
      [] OTHER -> s

\* queueSpawnMultiplier is kept in units of 10^-8 and truncated there
applyNipUpgradeEffect(s, effect) ==
    CASE effect.type = "clickPowerMultiplier" ->
             [s EXCEPT !.clickPowerMultiplier = @ + effect.value]
      [] effect.type = "autoRepairMultiplier" ->
             [s EXCEPT !.autoRepairMultiplier = @ + effect.value]
      [] effect.type = "carValueBonus"  -> [s EXCEPT !.carValueBonus = @ + effect.value]
      [] effect.type = "comboMaxBonus"  -> [s EXCEPT !.comboMaxBonus = @ + effect.value]
      [] effect.type = "comboGainBonus" -> [s EXCEPT !.comboGainBonus = @ + effect.value]
      [] effect.type = "queueSpawnReduction" ->
             [s EXCEPT !.queueSpawnMultiplier =
                           MulDivFloor(@, Max(40, 100 - effect.value), 100)]
      [] effect.type = "xpMultiplier"   -> [s EXCEPT !.xpMultiplier = @ + effect.value]
      [] OTHER -> s

\* the inner loops of recalculateStats: one effect applied level times
RECURSIVE ApplyUpgradeLevels(_, _, _)
ApplyUpgradeLevels(s, effect, level) ==
    IF level = 0 THEN s
    ELSE ApplyUpgradeLevels(applyUpgradeEffect(s, effect), effect, level - 1)

RECURSIVE ApplyNipLevels(_, _, _)
ApplyNipLevels(s, effect, level) ==
    IF level = 0 THEN s
    ELSE ApplyNipLevels(applyNipUpgradeEffect(s, effect), effect, level - 1)

\* the outer loops of recalculateStats, over the first k table entries
RECURSIVE ApplyAllUpgrades(_, _)
ApplyAllUpgrades(s, k) ==
    IF k = 0 THEN s
    ELSE LET t == ApplyAllUpgrades(s, k - 1)
             id == UpgradeList[k]
         IN  ApplyUpgradeLevels(t, UpgradeData[id].effect, t.upgrades[id])

RECURSIVE ApplyAllNipUpgrades(_, _)
ApplyAllNipUpgrades(s, k) ==
    IF k = 0 THEN s
    ELSE LET t == ApplyAllNipUpgrades(s, k - 1)
             id == NipUpgradeList[k]
         IN  ApplyNipLevels(t, NipUpgradeData[id].effect, t.nipUpgrades[id])

\* mutant: the derived values are not reset to their base before the effects are applied
recalculateStats_noReset(s) ==
    LET base == [s EXCEPT !.prestigeMultiplier = 100 + s.totalPrestigeEarned * 5]
        up   == ApplyAllUpgrades(base, Len(UpgradeList))
        nip  == ApplyAllNipUpgrades(up, Len(NipUpgradeList))
        cp   == [nip EXCEPT !.clickPower =
                     Max(1, (nip.clickPower * nip.clickPowerMultiplier) \div 100)]
    IN  calculateAutoRepairRate(cp)

\* recalculateStats
recalculateStats(s) ==
    LET base == [s EXCEPT !.clickPower = 1, !.carValueBonus = 0,
                          !.incomeMultiplier = 100, !.clickPowerMultiplier = 100,
                          !.autoRepairMultiplier = 100,
                          !.queueSpawnMultiplier = 100000000,
                          !.xpMultiplier = 100, !.comboMaxBonus = 0,
                          !.comboGainBonus = 0,
                          !.prestigeMultiplier = 100 + s.totalPrestigeEarned * 5]
        up   == ApplyAllUpgrades(base, Len(UpgradeList))
        nip  == ApplyAllNipUpgrades(up, Len(NipUpgradeList))
        cp   == [nip EXCEPT !.clickPower =
                     Max(1, (nip.clickPower * nip.clickPowerMultiplier) \div 100)]
    IN  calculateAutoRepairRate(cp)

-----------------------------------------------------------------------------
(* UpgradeSystem, NipShopSystem, WorkerSystem.hire.                        *)

\* UpgradeSystem.getCost
getUpgradeCost(s, upgradeId) == UpgradeData[upgradeId].cost[s.upgrades[upgradeId] + 1]

\* UpgradeSystem.canPurchase
canPurchaseUpgrade(s, upgradeId) ==
    /\ s.upgrades[upgradeId] < UpgradeData[upgradeId].maxLevel
    /\ canAfford(s, getUpgradeCost(s, upgradeId))

\* UpgradeSystem.purchase: the effect of the new level is added on top of the current
\* stats (no recalculateStats here)
purchaseUpgrade(w, upgradeId) ==
    IF ~canPurchaseUpgrade(w.s, upgradeId) THEN Return(w, "false")
    ELSE LET cost == getUpgradeCost(w.s, upgradeId)
             w1 == spendCurrency(w, cost)
         IN  IF w1.ret = "false" THEN w1
             ELSE LET w2 == [w1 EXCEPT !.s.upgrades[upgradeId] = @ + 1]
                      w3 == [w2 EXCEPT !.s = applyUpgradeEffect(@, UpgradeData[upgradeId].effect)]
                      w4 == Publish(w3, SimpleEv("UPGRADE_PURCHASED", w3.s.upgrades[upgradeId]))
                  IN  Return(Publish(w4, SimpleEv("CLICK_POWER_CHANGED", w4.s.clickPower)), "true")

\* NipShopSystem.getCost
getNipCost(s, upgradeId) == NipUpgradeData[upgradeId].cost[s.nipUpgrades[upgradeId] + 1]

\* NipShopSystem.canPurchase
canPurchaseNip(s, upgradeId) ==
    /\ s.nipUpgrades[upgradeId] < NipUpgradeData[upgradeId].maxLevel
    /\ s.prestigeCurrency >= getNipCost(s, upgradeId)

\* NipShopSystem.purchase
purchaseNip(w, upgradeId) ==
    IF ~canPurchaseNip(w.s, upgradeId) THEN Return(w, "false")
    ELSE LET cost == getNipCost(w.s, upgradeId)
             w1 == spendPrestigeCurrency(w, cost)
         IN  IF w1.ret = "false" THEN w1
             ELSE LET w2 == [w1 EXCEPT !.s.nipUpgrades[upgradeId] = @ + 1]
                      w3 == [w2 EXCEPT !.s = recalculateStats(@)]
                  IN  Return(Publish(w3, SimpleEv("NIP_UPGRADE_PURCHASED",
                                                  w3.s.nipUpgrades[upgradeId])), "true")

\* WorkerSystem.getCost
getWorkerCost(s, workerId) == WorkerData[workerId].cost[s.workerCounts[workerId] + 1]

\* WorkerSystem.canHire
canHire(s, workerId) == canAfford(s, getWorkerCost(s, workerId))

\* mutant: the worker joins the roster before the payment is attempted
hire_noCheck(w, workerId) ==
    LET w1 == [w EXCEPT !.s.workers = Append(@, workerId),
                        !.s.workerCounts[workerId] = @ + 1]
        w2 == spendCurrency(w1, getWorkerCost(w.s, workerId))
    IN  IF w2.ret = "false" THEN w2
        ELSE Return(Publish([w2 EXCEPT !.s = calculateAutoRepairRate(@)],
                            SimpleEv("WORKER_HIRED", w2.s.workerCounts[workerId])), "true")

\* WorkerSystem.hire (a worker is kept as its type id; hiredAt and totalRepairs,
\* which nothing reads back, are left out)
hire(w, workerId) ==
    IF ~canHire(w.s, workerId) THEN Return(w, "false")
    ELSE LET cost == getWorkerCost(w.s, workerId)
             w1 == spendCurrency(w, cost)
         IN  IF w1.ret = "false" THEN w1
             ELSE LET w2 == [w1 EXCEPT !.s.workers = Append(@, workerId),
                                       !.s.workerCounts[workerId] = @ + 1]
                      w3 == [w2 EXCEPT !.s = calculateAutoRepairRate(@)]
                  IN  Return(Publish(w3, SimpleEv("WORKER_HIRED",
                                                  w3.s.workerCounts[workerId])), "true")

-----------------------------------------------------------------------------
(* PrestigeSystem.                                                         *)

baseCost == 1000000

\* Math.floor(Math.sqrt(n)) for a natural n
RECURSIVE SqrtSearch(_, _)
SqrtSearch(k, n) == IF (k + 1) * (k + 1) <= n THEN SqrtSearch(k + 1, n) ELSE k

\* totalPrestigeEarned || prestigeCurrency
earnedTotal(s) == IF s.totalPrestigeEarned # 0 THEN s.totalPrestigeEarned ELSE s.prestigeCurrency

\* mutant: no threshold test, and the ratio is rounded up before the root
calculateClaimableNip_roundUp(s) ==
    Max(0, SqrtSearch(0, (s.lifetimeEarnings + baseCost - 1) \div baseCost) - earnedTotal(s))

\* calculateClaimableNip: floor(sqrt(lifetimeEarnings / baseCost)) - earnedTotal, not below 0
calculateClaimableNip(s) ==
    IF s.lifetimeEarnings < baseCost THEN 0
    ELSE Max(0, SqrtSearch(0, s.lifetimeEarnings \div baseCost) - earnedTotal(s))

\* mutant: the reset is skipped, only the Nip is granted
prestige_keepRun(w) ==
    LET claimable == calculateClaimableNip(w.s)
    IN  IF claimable <= 0 THEN Return(w, "false")
        ELSE LET w1 == Publish(w, SimpleEv("NOTIFICATION", claimable))
                 w2 == [w1 EXCEPT !.s = recalculateStats(
                            [w1.s EXCEPT !.prestigeCurrency = @ + claimable,
                                         !.totalPrestigeEarned = earnedTotal(w.s) + claimable])]
             IN  Return(Publish(w2, SimpleEv("PRESTIGE_CURRENCY_CHANGED",
                                             w2.s.prestigeCurrency)), "true")

\* mutant: the reset runs also when nothing is claimable
prestige_noGuard(w) ==
    LET claimable == calculateClaimableNip(w.s)
        w1 == Publish(w, SimpleEv("NOTIFICATION", claimable))
        restored == [reset EXCEPT !.prestigeCurrency = w.s.prestigeCurrency + claimable,
                                  !.totalPrestigeEarned = earnedTotal(w.s) + claimable,
                                  !.nipUpgrades = w.s.nipUpgrades,
                                  !.lifetimeEarnings = w.s.lifetimeEarnings]
        w2 == [w1 EXCEPT !.s = recalculateStats(restored)]
    IN  Return(Publish(w2, SimpleEv("PRESTIGE_CURRENCY_CHANGED", w2.s.prestigeCurrency)),
               IF claimable <= 0 THEN "false" ELSE "true")

\* mutant: totalPrestigeEarned is not restored after the reset
prestige_totalLost(w) ==
    LET claimable == calculateClaimableNip(w.s)
    IN  IF claimable <= 0 THEN Return(w, "false")
        ELSE LET w1 == Publish(w, SimpleEv("NOTIFICATION", claimable))
                 restored == [reset EXCEPT !.prestigeCurrency = w.s.prestigeCurrency + claimable,
                                           !.nipUpgrades = w.s.nipUpgrades,
                                           !.lifetimeEarnings = w.s.lifetimeEarnings]
                 w2 == [w1 EXCEPT !.s = recalculateStats(restored)]
             IN  Return(Publish(w2, SimpleEv("PRESTIGE_CURRENCY_CHANGED",
                                             w2.s.prestigeCurrency)), "true")

\* prestige(): reset the ledger, restore the four permanent fields, recalculate
prestige(w) ==
    LET claimable == calculateClaimableNip(w.s)
    IN  IF claimable <= 0 THEN Return(w, "false")
        ELSE LET newPrestigeCurrency == w.s.prestigeCurrency + claimable
                 newTotalPrestigeEarned == earnedTotal(w.s) + claimable
                 w1 == Publish(w, SimpleEv("NOTIFICATION", claimable))
                 restored == [reset EXCEPT !.prestigeCurrency = newPrestigeCurrency,
                                           !.totalPrestigeEarned = newTotalPrestigeEarned,
                                           !.nipUpgrades = w.s.nipUpgrades,
                                           !.lifetimeEarnings = w.s.lifetimeEarnings]
                 w2 == [w1 EXCEPT !.s = recalculateStats(restored)]
             IN  Return(Publish(w2, SimpleEv("PRESTIGE_CURRENCY_CHANGED",
                                             w2.s.prestigeCurrency)), "true")

-----------------------------------------------------------------------------
(* Car.                                                                    *)

\* a car without contract tag
NoMeta == [id |-> 0]

\* new Car(carDef)
NewCar(carId) ==
    [id |-> carId, repairCost |-> CarData[carId].repairCost,
     baseValue |-> CarData[carId].baseValue, repairProgress |-> 0, tier |-> 1,
     contractMeta |-> NoMeta]

\* applyTierScaling(tier): multiplier 1 + (tier - 1) * 0.5 = (tier + 1) / 2
applyTierScaling(car, tier) ==
    IF tier <= 1 THEN [car EXCEPT !.tier = 1]
    ELSE [car EXCEPT !.tier = tier,
                     !.repairCost = (@ * (tier + 1)) \div 2,
                     !.baseValue = (@ * (tier + 1)) \div 2]

\* repair(amount): progress is capped at the cost
repair(car, amount) ==
    [car EXCEPT !.repairProgress = Min(@ + amount, car.repairCost)]

\* mutant: the car counts as repaired only beyond its cost
isFullyRepaired_beyond(car) == car.repairProgress > car.repairCost

\* isFullyRepaired
isFullyRepaired(car) == car.repairProgress >= car.repairCost

-----------------------------------------------------------------------------
(* JobBoardSystem.  The random numbers generateContract draws are inputs:   *)
(* a draw is [car, repair, payout, duration], each Math.random() result in *)
(* hundredths.  Contract ids are handed out from a counter (the code builds *)
(* them from the clock and six random characters).                         *)

maxContracts == 3
refreshInterval == 25000
maxQueueSize == 5

\* the order of the CarData table, which is also the order cars are unlocked in
CarOrder == << "hatchback", "sedan", "suv", "pickup", "sportsCar", "vintage",
               "cyberCar", "hypercar" >>

\* getRarityBonus, in hundredths
getRarityBonus(rarity) ==
    CASE rarity = "legendary" -> 120
      [] rarity = "rare"      -> 80
      [] rarity = "uncommon"  -> 45
      [] OTHER                -> 20

\* Number(x.toFixed(2)) for x given in units of 10^-4, result in hundredths
ToFixed2(x) == (x + 50) \div 100

\* generateContract
generateContract(w, draw) ==
    LET unlocked == SelectSeq(CarOrder, LAMBDA c : c \in w.s.unlockedCars)
        pool == IF Len(unlocked) > 0 THEN unlocked ELSE << "hatchback" >>
        carId == pool[((draw.car * Len(pool)) \div 100) + 1]
        rarityBonus == getRarityBonus(CarData[carId].rarity)
        tierBonus == Max(0, w.s.currentTier - 1) * 5
    IN  [id |-> w.ids + 1,
         carId |-> carId,
         repairMultiplier |-> ToFixed2(11000 + draw.repair * 50 + rarityBonus * 20
                                       + tierBonus * 100),
         payoutMultiplier |-> ToFixed2(12500 + draw.payout * 75 + rarityBonus * 25),
         bonusXP |-> Max(8, (CarData[carId].repairCost * (200 + rarityBonus)) \div 1600),
         durationMs |-> 1000 * Max(20, (6500 - rarityBonus * 18 - tierBonus * 50
                                        + draw.duration * 14) \div 100)]

\* mutant: the fill loop runs while length <= maxContracts
RECURSIVE FillContracts_oneMore(_, _)
FillContracts_oneMore(w, draws) ==
    IF Len(w.s.jobContracts) <= maxContracts /\ draws # <<>>
    THEN FillContracts_oneMore(
             [w EXCEPT !.s.jobContracts = Append(@, generateContract(w, Head(draws))),
                       !.ids = @ + 1],
             Tail(draws))
    ELSE w

\* the while loop of refreshContracts
RECURSIVE FillContracts(_, _)
FillContracts(w, draws) ==
    IF Len(w.s.jobContracts) < maxContracts
    THEN FillContracts([w EXCEPT !.s.jobContracts = Append(@, generateContract(w, Head(draws))),
                                 !.ids = @ + 1],
                       Tail(draws))
    ELSE w

\* refreshContracts(replaceAll)
refreshContracts(w, replaceAll, draws) ==
    LET w1 == IF replaceAll THEN [w EXCEPT !.s.jobContracts = <<>>] ELSE w
        w2 == IF Len(w1.s.jobContracts) > maxContracts
              THEN [w1 EXCEPT !.s.jobContracts = SubSeq(@, 1, maxContracts)]
              ELSE w1
        w3 == FillContracts(w2, draws)
    IN  Emit(w3, SimpleEv("JOB_BOARD_UPDATED", Len(w3.s.jobContracts)))

\* mutant: with a car on the lift the contract car joins the back of the queue
spawnContractCar_atBack(w, contract) ==
    LET carId == IF contract.carId \in CarIds THEN contract.carId ELSE "hatchback"
        scaled == applyTierScaling(NewCar(carId), getCurrentTier(w.s))
        contractCar ==
            [scaled EXCEPT
                !.repairCost = Max(1, (@ * contract.repairMultiplier) \div 100),
                !.contractMeta = [id |-> contract.id,
                                  payoutMultiplier |-> contract.payoutMultiplier,
                                  bonusXP |-> contract.bonusXP,
                                  expiresAt |-> contract.expiresAt,
                                  expired |-> FALSE]]
    IN  IF w.s.currentCar = NoCar
        THEN Emit([w EXCEPT !.s.currentCar = contractCar],
                  SimpleEv("CAR_STARTED", Len(w.s.carQueue)))
        ELSE LET q == IF Len(w.s.carQueue) >= 5
                      THEN SubSeq(w.s.carQueue, 1, Len(w.s.carQueue) - 1)
                      ELSE w.s.carQueue
             IN  [w EXCEPT !.s.carQueue = q \o << contractCar >>]

\* mutant: with a car on the lift and a full queue the contract car is turned away
spawnContractCar_fullDrops(w, contract) ==
    LET carId == IF contract.carId \in CarIds THEN contract.carId ELSE "hatchback"
        scaled == applyTierScaling(NewCar(carId), getCurrentTier(w.s))
        contractCar ==
            [scaled EXCEPT
                !.repairCost = Max(1, (@ * contract.repairMultiplier) \div 100),
                !.contractMeta = [id |-> contract.id,
                                  payoutMultiplier |-> contract.payoutMultiplier,
                                  bonusXP |-> contract.bonusXP,
                                  expiresAt |-> contract.expiresAt,
                                  expired |-> FALSE]]
    IN  IF w.s.currentCar = NoCar
        THEN Emit([w EXCEPT !.s.currentCar = contractCar],
                  SimpleEv("CAR_STARTED", Len(w.s.carQueue)))
        ELSE IF Len(w.s.carQueue) >= 5 THEN w
        ELSE [w EXCEPT !.s.carQueue = << contractCar >> \o @]

\* spawnContractCar(contract)
spawnContractCar(w, contract) ==
    LET carId == IF contract.carId \in CarIds THEN contract.carId ELSE "hatchback"
        scaled == applyTierScaling(NewCar(carId), getCurrentTier(w.s))
        contractCar ==
            [scaled EXCEPT
                !.repairCost = Max(1, (@ * contract.repairMultiplier) \div 100),
                !.contractMeta = [id |-> contract.id,
                                  payoutMultiplier |-> contract.payoutMultiplier,
                                  bonusXP |-> contract.bonusXP,
                                  expiresAt |-> contract.expiresAt,
                                  expired |-> FALSE]]
    IN  IF w.s.currentCar = NoCar
        THEN Emit([w EXCEPT !.s.currentCar = contractCar],
                  SimpleEv("CAR_STARTED", Len(w.s.carQueue)))
        ELSE LET q == IF Len(w.s.carQueue) >= 5
                      THEN SubSeq(w.s.carQueue, 1, Len(w.s.carQueue) - 1)
                      ELSE w.s.carQueue
             IN  [w EXCEPT !.s.carQueue = << contractCar >> \o q]

\* acceptContract(contractId)
acceptContract(w, contractId, t, draws) ==
    IF w.s.activeJobContract # NoContract THEN Return(w, "false")
    ELSE LET found == {i \in 1..Len(w.s.jobContracts) : w.s.jobContracts[i].id = contractId}
         IN  IF found = {} THEN Return(w, "false")
             ELSE LET index == CHOOSE i \in found : \A j \in found : i <= j
                      contract == w.s.jobContracts[index]
                      activeContract ==
                          [id |-> contract.id, carId |-> contract.carId,
                           repairMultiplier |-> contract.repairMultiplier,
                           payoutMultiplier |-> contract.payoutMultiplier,
                           bonusXP |-> contract.bonusXP,
                           durationMs |-> contract.durationMs,
                           acceptedAt |-> t, expiresAt |-> t + contract.durationMs]
                      w1 == [w EXCEPT !.s.jobContracts =
                                          SubSeq(@, 1, index - 1) \o SubSeq(@, index + 1, Len(@)),
                                      !.s.activeJobContract = activeContract]
                      w2 == spawnContractCar(w1, activeContract)
                      w3 == refreshContracts(w2, FALSE, draws)
                      w4 == Emit(w3, SimpleEv("JOB_ACCEPTED", contract.id))
                  IN  Return(Emit(w4, SimpleEv("NOTIFICATION", contract.id)), "true")

\* the ids on the board
OfferIds(s) == {s.jobContracts[i].id : i \in 1..Len(s.jobContracts)}

Tagged(car, contractId) == car.contractMeta # NoMeta /\ car.contractMeta.id = contractId

\* mutant: the lift stays empty after the contract car is taken off it
abandonActiveContract_noPromote(w, draws) ==
    IF w.s.activeJobContract = NoContract THEN Return(w, "false")
    ELSE LET contractId == w.s.activeJobContract.id
             removedCurrent == w.s.currentCar # NoCar /\ Tagged(w.s.currentCar, contractId)
             w1 == [w EXCEPT
                       !.s.currentCar = IF removedCurrent THEN NoCar ELSE @,
                       !.s.carQueue = SelectSeq(@, LAMBDA car : ~Tagged(car, contractId)),
                       !.s.activeJobContract = NoContract,
                       !.s.contractsFailed = @ + 1]
             w2 == refreshContracts(w1, FALSE, draws)
             w4 == Emit(w2, Ev("JOB_FAILED", contractId, "absent", "abandoned", 0))
         IN  Return(Emit(w4, SimpleEv("NOTIFICATION", contractId)), "true")

\* abandonActiveContract
abandonActiveContract(w, draws) ==
    IF w.s.activeJobContract = NoContract THEN Return(w, "false")
    ELSE LET contractId == w.s.activeJobContract.id
             removedCurrent == w.s.currentCar # NoCar /\ Tagged(w.s.currentCar, contractId)
             w1 == [w EXCEPT
                       !.s.currentCar = IF removedCurrent THEN NoCar ELSE @,
                       !.s.carQueue = SelectSeq(@, LAMBDA car : ~Tagged(car, contractId)),
                       !.s.activeJobContract = NoContract,
                       !.s.contractsFailed = @ + 1]
             w2 == refreshContracts(w1, FALSE, draws)
             w3 == IF removedCurrent /\ Len(w2.s.carQueue) > 0
                   THEN Emit([w2 EXCEPT !.s.currentCar = Head(w2.s.carQueue),
                                        !.s.carQueue = Tail(@)],
                             SimpleEv("CAR_STARTED", Len(w2.s.carQueue) - 1))
                   ELSE w2
             w4 == Emit(w3, Ev("JOB_FAILED", contractId, "absent", "abandoned", 0))
         IN  Return(Emit(w4, SimpleEv("NOTIFICATION", contractId)), "true")

\* mutant: only the car on the lift is marked, the queued ones are not
markContractCarExpired_currentOnly(s, contractId) ==
    [s EXCEPT
        !.currentCar = IF @ # NoCar /\ Tagged(@, contractId)
                       THEN [@ EXCEPT !.contractMeta.expired = TRUE] ELSE @]

\* markContractCarExpired(contractId)
markContractCarExpired(s, contractId) ==
    [s EXCEPT
        !.currentCar = IF @ # NoCar /\ Tagged(@, contractId)
                       THEN [@ EXCEPT !.contractMeta.expired = TRUE] ELSE @,
        !.carQueue = [i \in 1..Len(@) |->
                         IF Tagged(@[i], contractId)
                         THEN [@[i] EXCEPT !.contractMeta.expired = TRUE] ELSE @[i]]]

\* expireActiveContract
expireActiveContract(w, draws) ==
    IF w.s.activeJobContract = NoContract THEN w
    ELSE LET contractId == w.s.activeJobContract.id
             w1 == [w EXCEPT !.s = [markContractCarExpired(@, contractId) EXCEPT
                                        !.activeJobContract = NoContract,
                                        !.contractsFailed = @ + 1]]
             w2 == refreshContracts(w1, FALSE, draws)
             w3 == Emit(w2, Ev("JOB_FAILED", contractId, "absent", "expired", 0))
         IN  Emit(w3, SimpleEv("NOTIFICATION", contractId))

\* hasContractCar of reconcileAfterLoad
hasContractCar(s, contractId) ==
    \/ s.currentCar # NoCar /\ Tagged(s.currentCar, contractId)
    \/ \E i \in 1..Len(s.carQueue) : Tagged(s.carQueue[i], contractId)

\* mutant: the deadline of the loaded contract is not looked at
reconcileAfterLoad_noExpiry(w, t, draws) ==
    LET active == w.s.activeJobContract
        w1 == IF active # NoContract /\ ~hasContractCar(w.s, active.id)
              THEN spawnContractCar(w, active) ELSE w
    IN  refreshContracts(w1, FALSE, draws)

\* reconcileAfterLoad, read at clock t
reconcileAfterLoad(w, t, draws) ==
    LET active == w.s.activeJobContract
    IN  IF active # NoContract /\ t > active.expiresAt
        THEN Return(expireActiveContract(w, draws), "expired")
        ELSE LET respawn == active # NoContract /\ ~hasContractCar(w.s, active.id)
                 w1 == IF respawn THEN spawnContractCar(w, active) ELSE w
             IN  Return(refreshContracts(w1, FALSE, draws),
                        IF respawn THEN "respawned" ELSE "none")

\* mutant: the repaired car's contract is resolved without a look at the active one
handleCarRepaired_noActiveCheck(w, car, contractResult, draws) ==
    IF car.contractMeta = NoMeta THEN w
    ELSE LET w1 == [w EXCEPT !.s.activeJobContract = NoContract]
             w2 == IF contractResult = "inTime"
                   THEN [w1 EXCEPT !.s.contractsCompleted = @ + 1]
                   ELSE [w1 EXCEPT !.s.contractsFailed = @ + 1]
         IN  refreshContracts(w2, FALSE, draws)

\* handleCarRepaired(data): the subscriber of CAR_REPAIRED.  contractResult is
\* "absent" (the payload has no such key), "null", "inTime" or "late".
handleCarRepaired(w, car, contractResult, draws) ==
    IF car.contractMeta = NoMeta THEN w
    ELSE IF w.s.activeJobContract = NoContract
            \/ w.s.activeJobContract.id # car.contractMeta.id THEN w
    ELSE LET contractId == w.s.activeJobContract.id
             completedInTime == contractResult = "inTime"
             w1 == [w EXCEPT !.s.activeJobContract = NoContract]
             w2 == IF completedInTime
                   THEN Emit(Emit([w1 EXCEPT !.s.contractsCompleted = @ + 1],
                                  SimpleEv("JOB_COMPLETED", contractId)),
                             SimpleEv("NOTIFICATION", contractId))
                   ELSE Emit(Emit([w1 EXCEPT !.s.contractsFailed = @ + 1],
                                  Ev("JOB_FAILED", contractId, "absent", "late", 0)),
                             SimpleEv("NOTIFICATION", contractId))
         IN  refreshContracts(w2, FALSE, draws)

-----------------------------------------------------------------------------
(* RepairCompletionService, ClickSystem, WorkerSystem.update,              *)
(* CarQueueSystem.                                                         *)

\* getCarValueMultiplier: 1 + carValueBonus, in hundredths
getCarValueMultiplier(s) == 100 + s.carValueBonus

\* the CAR_REPAIRED payload: payment, isAutoRepair, contractResult, the car's contract
\* id; s is the ledger as the event fires
CarRepaired(s, payment, isAutoRepair, contractResult, car) ==
    [type |-> "CAR_REPAIRED", n |-> payment, auto |-> isAutoRepair, res |-> contractResult,
     snap |-> IF car.contractMeta = NoMeta THEN 0 ELSE car.contractMeta.id,
     held |-> s.currentCar = car]

\* eventBus.emit(CAR_REPAIRED, ...) on the world as it stands at the call
EmitCarRepaired(w, payment, isAutoRepair, contractResult, car) ==
    CHOOSE out \in {Publish(x, CarRepaired(x.s, payment, isAutoRepair, contractResult, car))
                       : x \in {w}} : TRUE

\* mutant: the deadline is not compared with the clock
inTime_flagOnly(contractMeta, t) == ~contractMeta.expired

\* completedInTime of completeRepair: !expired && now <= expiresAt
inTime(contractMeta, t) == ~contractMeta.expired /\ t <= contractMeta.expiresAt

\* RepairCompletionService.completeRepair(isAutoRepair, clickBonusMultiplier), read at
\* clock t; clickBonusMultiplier in hundredths
completeRepair(w, isAutoRepair, clickBonusMultiplier, t, draws) ==
    IF w.s.currentCar = NoCar THEN Return(w, "null")
    ELSE LET car == w.s.currentCar
             hasMeta == car.contractMeta # NoMeta
             basePayment == MulDivFloor(car.baseValue,
                                getCarValueMultiplier(w.s) * clickBonusMultiplier, 10000)
             completedInTime == hasMeta /\ inTime(car.contractMeta, t)
             payoutMultiplier == IF completedInTime THEN car.contractMeta.payoutMultiplier
                                 ELSE 100
             bonusXP == IF completedInTime THEN car.contractMeta.bonusXP ELSE 0
             payment == IF hasMeta THEN (basePayment * payoutMultiplier) \div 100
                        ELSE basePayment
             w1 == IF hasMeta /\ bonusXP > 0
                   THEN addXP(w, (bonusXP * w.s.xpMultiplier) \div 100)
                   ELSE w
             contractResult == IF ~hasMeta THEN "null"
                               ELSE IF completedInTime THEN "inTime" ELSE "late"
             w2 == addCurrency(w1, payment)
             w3 == [w2 EXCEPT !.s.carsRepaired = @ + 1]
             tier == car.tier
             carBaseCost == IF tier > 1 THEN (car.repairCost * 2) \div (tier + 1)
                            ELSE car.repairCost
             xpEarned == (carBaseCost * w3.s.xpMultiplier) \div 1000
             w4 == addXP(w3, xpEarned)
             w5 == EmitCarRepaired(w4, payment, isAutoRepair, contractResult, car)
             w6 == handleCarRepaired(w5, car, contractResult, draws)
         IN  ReturnNum(Return([w6 EXCEPT !.s.currentCar = NoCar], "done"), payment)

\* WorkerSystem.completeAutoRepair: the worker engine's own completion code
completeAutoRepair(w, draws) ==
    IF w.s.currentCar = NoCar THEN w
    ELSE LET car == w.s.currentCar
             payment == (car.baseValue * getCarValueMultiplier(w.s)) \div 100
             w1 == addCurrency(w, payment)
             w2 == EmitCarRepaired(w1, payment, "true", "absent", car)
             w3 == handleCarRepaired(w2, car, "absent", draws)
         IN  ReturnNum(Return([w3 EXCEPT !.s.currentCar = NoCar], "done"), payment)

\* WorkerSystem.update(deltaMs); every deltaMs used makes each worker's contribution
\* repairRate * (deltaMs / 1000) a whole number
WorkerUpdate(w, deltaMs, draws) ==
    IF w.s.currentCar = NoCar \/ Len(w.s.workers) = 0 THEN w
    ELSE LET totalRepair ==
                 SumSeq([i \in 1..Len(w.s.workers) |->
                            (WorkerData[w.s.workers[i]].repairRate * deltaMs) \div 1000])
         IN  IF totalRepair <= 0 THEN w
             ELSE LET w1 == [w EXCEPT !.s.currentCar = repair(@, totalRepair)]
                      w2 == Emit(w1, SimpleEv("CAR_PROGRESS", w1.s.currentCar.repairProgress))
                      w3 == Emit(w2, SimpleEv("WORKER_WORKING", totalRepair))
                  IN  IF isFullyRepaired(w1.s.currentCar)
                      THEN completeAutoRepair(w3, draws)
                      ELSE w3

\* ClickSystem constants, in hundredths and ms
maxCombo == 200
comboDecayRate == 50
comboGainPerClick == 10
comboTimeout == 1000

\* ClickSystem.handleClick(x, y): hit says whether (x, y) lies inside the car hitbox.
\* The result carries the click engine's own fields next to the world.
handleClick(w, combo, lastClick, hit, t, draws) ==
    IF w.s.currentCar = NoCar \/ ~hit
    THEN [w |-> Return(w, "null"), comboMultiplier |-> combo, lastClickTime |-> lastClick]
    ELSE LET newCombo == IF t - lastClick < comboTimeout
                         THEN Min(combo + comboGainPerClick, maxCombo)
                         ELSE 100
             repairAmount == (w.s.clickPower * newCombo) \div 100
             w1 == [w EXCEPT !.s.currentCar = repair(@, repairAmount),
                             !.s.totalClicks = @ + 1]
             w2 == Publish(w1, SimpleEv("CLICK_PERFORMED", repairAmount))
             w3 == Emit(w2, SimpleEv("CAR_PROGRESS", w2.s.currentCar.repairProgress))
             payoutBonus == 100 + (Max(0, newCombo - 100) \div 2)
             w4 == IF isFullyRepaired(w1.s.currentCar)
                   THEN completeRepair(w3, "false", payoutBonus, t, draws)
                   ELSE w3
         IN  [w |-> Return(w4, IF isFullyRepaired(w1.s.currentCar) THEN "repaired" ELSE "clicked"),
              comboMultiplier |-> newCombo, lastClickTime |-> t]

\* mutant: update leaves the combo as it is
ClickUpdate_frozen(combo, lastClick, deltaMs, t) == combo

\* mutant: the decay is not stopped at 1
ClickUpdate_noFloor(combo, lastClick, deltaMs, t) ==
    IF t - lastClick > comboTimeout
    THEN combo - (comboDecayRate * deltaMs) \div 1000
    ELSE combo

\* ClickSystem.update(deltaMs): combo decay (exact in hundredths when deltaMs is a
\* multiple of 20 ms, as every deltaMs used below is)
ClickUpdate(combo, lastClick, deltaMs, t) ==
    IF t - lastClick > comboTimeout
    THEN Max(100, combo - (comboDecayRate * deltaMs) \div 1000)
    ELSE combo

\* CarQueueSystem constants
baseSpawnInterval == 8000
minSpawnInterval == 2000

\* getSpawnInterval
getSpawnInterval(s) ==
    LET workerBonus == Min(Len(s.workers) * 5, 75)
    IN  Max((baseSpawnInterval * (100 - workerBonus)) \div 100, minSpawnInterval)

\* mutant: the capacity test admits one car more
canSpawnCar_oneMore(s) == Len(s.carQueue) <= maxQueueSize

\* canSpawnCar
canSpawnCar(s) == Len(s.carQueue) < maxQueueSize

\* spawnCar: carId is the car getRandomCar() drew
spawnCar(w, carId) ==
    LET w1 == [w EXCEPT !.s.carQueue = Append(@, NewCar(carId))]
    IN  Emit(w1, SimpleEv("CAR_QUEUED", Len(w1.s.carQueue)))

\* assignNextCar
assignNextCar(w) ==
    IF w.s.currentCar = NoCar /\ Len(w.s.carQueue) > 0
    THEN Emit([w EXCEPT !.s.currentCar = Head(w.s.carQueue), !.s.carQueue = Tail(@)],
              SimpleEv("CAR_STARTED", Len(w.s.carQueue) - 1))
    ELSE w

\* the spawn loop of CarQueueSystem.update; the timer travels in w.num
RECURSIVE SpawnLoop(_, _, _)
SpawnLoop(w, spawnInterval, cars) ==
    IF w.num >= spawnInterval /\ canSpawnCar(w.s)
    THEN SpawnLoop(ReturnNum(spawnCar(w, Head(cars)), w.num - spawnInterval),
                   spawnInterval, Tail(cars))
    ELSE w

\* mutant: update leaves the lift alone
QueueUpdate_noAssign(w, timer, deltaMs, cars) ==
    LET spawnInterval == getSpawnInterval(w.s)
        w1 == SpawnLoop(ReturnNum(w, timer + deltaMs), spawnInterval, cars)
    IN  IF w1.num > spawnInterval * 2 THEN ReturnNum(w1, spawnInterval) ELSE w1

\* CarQueueSystem.update(deltaMs): the new spawnTimer comes back in .num
QueueUpdate(w, timer, deltaMs, cars) ==
    LET spawnInterval == getSpawnInterval(w.s)
        w1 == SpawnLoop(ReturnNum(w, timer + deltaMs), spawnInterval, cars)
        w2 == IF w1.num > spawnInterval * 2 THEN ReturnNum(w1, spawnInterval) ELSE w1
    IN  assignNextCar(w2)

\* how many cars the spawn loop takes from getRandomCar() when it starts with timer
SpawnCount(s, timer) ==
    LET spawnInterval == getSpawnInterval(s)
        w == SpawnLoop(ReturnNum(World(s, 0), timer), spawnInterval,
                       [i \in 1..(timer \div spawnInterval) |-> "hatchback"])
    IN  CountEv(w.ev, "CAR_QUEUED")

\* forceSpawn
forceSpawn(w, carId) ==
    assignNextCar(IF canSpawnCar(w.s) THEN spawnCar(w, carId) ELSE w)

-----------------------------------------------------------------------------
(* Saving and loading: Car.serialize / Car.deserialize, GameState.serialize *)
(* / GameState.deserialize.  The clock fields (createdAt, lastSaveTime,    *)
(* totalPlayTime, sessionStartTime), which the model does not carry, are   *)
(* left out.                                                               *)

\* x || d for a number x
OrDefault(x, d) == IF x = 0 THEN d ELSE x

\* Car.serialize: repairCost and baseValue are not written
serializeCar(car) ==
    [id |-> car.id, repairProgress |-> car.repairProgress,
     tier |-> OrDefault(car.tier, 1), contractMeta |-> car.contractMeta]

\* Car.deserialize: a new Car from the CarData entry, progress, tier and contract tag
\* from the save, then the tier scaling
deserializeCar(data) ==
    IF data.id \notin CarIds THEN NewCar("hatchback")
    ELSE LET car == [NewCar(data.id) EXCEPT !.repairProgress = data.repairProgress,
                                            !.tier = OrDefault(data.tier, 1),
                                            !.contractMeta = data.contractMeta]
         IN  IF car.tier > 1 THEN applyTierScaling(car, car.tier) ELSE car

\* GameState.serialize
serialize(s) ==
    [currency |-> s.currency, totalEarned |-> s.totalEarned, totalSpent |-> s.totalSpent,
     totalClicks |-> s.totalClicks, carsRepaired |-> s.carsRepaired,
     upgrades |-> s.upgrades, nipUpgrades |-> s.nipUpgrades,
     achievements |-> s.achievements,
     workers |-> s.workers, workerCounts |-> s.workerCounts,
     currentCar |-> IF s.currentCar = NoCar THEN NoCar ELSE serializeCar(s.currentCar),
     carQueue |-> [i \in 1..Len(s.carQueue) |-> serializeCar(s.carQueue[i])],
     jobContracts |-> s.jobContracts, activeJobContract |-> s.activeJobContract,
     contractsCompleted |-> s.contractsCompleted, contractsFailed |-> s.contractsFailed,
     garageXP |-> s.garageXP, garageLevel |-> s.garageLevel,
     currentTier |-> s.currentTier, unlockedCars |-> s.unlockedCars,
     prestigeCurrency |-> s.prestigeCurrency,
     totalPrestigeEarned |-> s.totalPrestigeEarned,
     lifetimeEarnings |-> s.lifetimeEarnings]

\* GameState.deserialize(data), on the ledger this; a worker is rebuilt from its id
deserialize(this, data) ==
    recalculateStats(
        [this EXCEPT
            !.currency = data.currency, !.totalEarned = data.totalEarned,
            !.totalSpent = data.totalSpent, !.totalClicks = data.totalClicks,
            !.carsRepaired = data.carsRepaired,
            !.upgrades = data.upgrades, !.nipUpgrades = data.nipUpgrades,
            !.achievements = data.achievements,
            !.workers = [i \in 1..Len(data.workers) |->
                            IF data.workers[i] \in WorkerIds THEN data.workers[i]
                            ELSE "juniorMaid"],
            !.workerCounts = data.workerCounts,
            !.currentCar = IF data.currentCar = NoCar THEN NoCar
                           ELSE deserializeCar(data.currentCar),
            !.carQueue = [i \in 1..Len(data.carQueue) |-> deserializeCar(data.carQueue[i])],
            !.jobContracts = data.jobContracts,
            !.activeJobContract = data.activeJobContract,
            !.contractsCompleted = data.contractsCompleted,
            !.contractsFailed = data.contractsFailed,
            !.garageXP = data.garageXP,
            !.garageLevel = OrDefault(data.garageLevel, 1),
            !.currentTier = OrDefault(data.currentTier, 1),
            !.unlockedCars = data.unlockedCars,
            !.prestigeCurrency = data.prestigeCurrency,
            !.totalPrestigeEarned = OrDefault(data.totalPrestigeEarned,
                                              data.prestigeCurrency),
            !.lifetimeEarnings = OrDefault(data.lifetimeEarnings, data.totalEarned)])

\* SaveManager.calculateOfflineProgress at offlineTime ms after the save: capped at
\* maxOfflineTime, nothing under a minute or without workers, half efficiency, 150
\* repair points and 100 of value per car.  autoRepairRate is in hundredths of a
\* point per second, so carsRepaired is floor(rate * effectiveTime / 30000000),
\* computed by whole seconds and the rest to stay within the integers.  The earnings
\* are added to currency and totalEarned directly.
maxOfflineTime == 28800000

\* mutant: offline earnings are credited to currency only
calculateOfflineProgress_currencyOnly(w, offlineTime) ==
    LET effectiveTime == Min(offlineTime, maxOfflineTime)
        autoRepairRate == w.s.autoRepairRate
        carsRepaired == (autoRepairRate * (effectiveTime \div 1000)
                         + (autoRepairRate * (effectiveTime % 1000)) \div 1000) \div 30000
        earnings == MulDivFloor(carsRepaired,
                                getCarValueMultiplier(w.s) * w.s.incomeMultiplier, 100)
    IN  IF effectiveTime < 60000 \/ autoRepairRate <= 0 THEN ReturnNum(w, 0)
        ELSE IF earnings > 0
             THEN ReturnNum(Emit([w EXCEPT !.s.currency = @ + earnings],
                                 SimpleEv("OFFLINE_EARNINGS", earnings)), earnings)
             ELSE ReturnNum(w, earnings)

calculateOfflineProgress(w, offlineTime) ==
    LET effectiveTime == Min(offlineTime, maxOfflineTime)
        autoRepairRate == w.s.autoRepairRate
        carsRepaired == (autoRepairRate * (effectiveTime \div 1000)
                         + (autoRepairRate * (effectiveTime % 1000)) \div 1000) \div 30000
        earnings == MulDivFloor(carsRepaired,
                                getCarValueMultiplier(w.s) * w.s.incomeMultiplier, 100)
    IN  IF effectiveTime < 60000 \/ autoRepairRate <= 0 THEN ReturnNum(w, 0)
        ELSE IF earnings > 0
             THEN ReturnNum(Emit([w EXCEPT !.s.currency = @ + earnings,
                                           !.s.totalEarned = @ + earnings],
                                 SimpleEv("OFFLINE_EARNINGS", earnings)), earnings)
             ELSE ReturnNum(w, earnings)

\* SaveManager.load of the save data written offlineTime ms ago
load(w, data, offlineTime) ==
    LET w1 == calculateOfflineProgress([w EXCEPT !.s = deserialize(@, data)], offlineTime)
    IN  Emit(w1, SimpleEv("GAME_LOADED", w1.num))

\* Game.ensureActiveCar
ensureActiveCar(w, carId) ==
    IF w.s.currentCar = NoCar /\ Len(w.s.carQueue) = 0 THEN forceSpawn(w, carId)
    ELSE IF w.s.currentCar = NoCar
    THEN [w EXCEPT !.s.currentCar = Head(w.s.carQueue), !.s.carQueue = Tail(@)]
    ELSE w

\* Game.continueFromSave with a save present
continueFromSave(w, data, offlineTime, carId) ==
    LET w1 == load(w, data, offlineTime)
        earnings == w1.num
        w2 == [w1 EXCEPT !.s = recalculateStats(@)]
        w3 == Emit(ensureActiveCar(w2, carId), SimpleEv("NOTIFICATION", 0))
        w4 == IF earnings > 0 THEN Emit(w3, SimpleEv("OFFLINE_EARNINGS", earnings)) ELSE w3
    IN  ReturnNum(w4, earnings)

\* Game.reset(keepPrestige): what is put aside and restored is prestigePoints (a
\* field GameState does not have) and prestigeMultiplier
gameReset(w, keepPrestige, carId) ==
    LET prestigeData == w.s.prestigeMultiplier
        s1 == IF keepPrestige THEN [reset EXCEPT !.prestigeMultiplier = prestigeData]
              ELSE reset
    IN  Emit(forceSpawn([w EXCEPT !.s = s1], carId), SimpleEv("GAME_RESET", 0))

-----------------------------------------------------------------------------
(* GameLoop.  Times are in thirds of a millisecond, so that the timestep    *)
(* 1000 / 60 ms is the whole number 50 and maxFrameTime is 750.  The update *)
(* and render callbacks are the constructor's parameters: the record keeps  *)
(* how often the last frame called update and what it handed to render     *)
(* (the accumulator, to be read over the timestep).                        *)

timestep == 50
maxFrameTime == 750

\* new GameLoop(updateFn, renderFn); clock is performance.now()
NewGameLoop ==
    [running |-> FALSE, paused |-> FALSE, lastTime |-> 0, accumulator |-> 0,
     clock |-> 0, updates |-> 0, rendered |-> 0]

\* start()
start(g) ==
    IF g.running THEN g
    ELSE [g EXCEPT !.running = TRUE, !.paused = FALSE, !.lastTime = g.clock,
                   !.accumulator = 0]

\* stop()
stop(g) == IF ~g.running THEN g ELSE [g EXCEPT !.running = FALSE]

\* pause()
pause(g) == [g EXCEPT !.paused = TRUE]

\* resume()
resume(g) ==
    IF g.paused THEN [g EXCEPT !.paused = FALSE, !.lastTime = g.clock, !.accumulator = 0]
    ELSE g

\* the fixed timestep loop: <<accumulator left, calls of update>>
RECURSIVE FixedSteps(_, _)
FixedSteps(accumulator, n) ==
    IF accumulator >= timestep THEN FixedSteps(accumulator - timestep, n + 1)
    ELSE <<accumulator, n>>

\* mutant: the frame time is not capped
loop_uncapped(g) ==
    IF ~g.running THEN [g EXCEPT !.updates = 0]
    ELSE LET frameTime == g.clock - g.lastTime
             g1 == [g EXCEPT !.lastTime = g.clock]
         IN  IF g1.paused THEN [g1 EXCEPT !.updates = 0, !.rendered = 0]
             ELSE LET steps == FixedSteps(g1.accumulator + frameTime, 0)
                  IN  [g1 EXCEPT !.accumulator = steps[1], !.updates = steps[2],
                                 !.rendered = steps[1]]

\* loop(currentTime), with currentTime the clock
loop(g) ==
    IF ~g.running THEN [g EXCEPT !.updates = 0]
    ELSE LET elapsed == g.clock - g.lastTime
             frameTime == IF elapsed > maxFrameTime THEN maxFrameTime ELSE elapsed
             g1 == [g EXCEPT !.lastTime = g.clock]
         IN  IF g1.paused THEN [g1 EXCEPT !.updates = 0, !.rendered = 0]
             ELSE LET steps == FixedSteps(g1.accumulator + frameTime, 0)
                  IN  [g1 EXCEPT !.accumulator = steps[1], !.updates = steps[2],
                                 !.rendered = steps[1]]

-----------------------------------------------------------------------------
(* EventBus, for one event name.  A listener is [id, once, kind]: id tells  *)
(* the function objects apart, once says it is the wrapper EventBus.once   *)
(* built, kind is what the callback does: "plain" returns, "throws" raises *)
(* an error, "reemits" emits the same event again the first time it is     *)
(* called.  calls[id] is the callback behind listener id and the number n   *)
(* of calls it received.                                                   *)

HandlerKinds == {"plain", "throws", "reemits"}

\* events: {} and no callback called yet
NewEventBus == [listeners |-> <<>>, calls |-> <<>>]

\* on(event, callback)
on(b, once, kind) ==
    [b EXCEPT !.listeners = Append(@, [id |-> Len(b.calls) + 1, once |-> once,
                                       kind |-> kind]),
              !.calls = Append(@, [once |-> once, kind |-> kind, n |-> 0])]

\* off(event, callback): the array is replaced by a filtered copy
off(b, id) == [b EXCEPT !.listeners = SelectSeq(@, LAMBDA cb : cb.id # id)]

\* emit(event, data): forEach over the array as it is when emit starts; an error of
\* a callback is caught and the rest of that callback is skipped.  A once wrapper
\* calls the callback and then off.
RECURSIVE emit(_), ForEach(_, _, _), Invoke(_, _)
Invoke(b, cb) ==
    LET first == b.calls[cb.id].n = 0
        b1 == [b EXCEPT !.calls[cb.id].n = @ + 1]
        b2 == IF cb.kind = "reemits" /\ first THEN emit(b1) ELSE b1
    IN  IF cb.kind = "throws" THEN b1
        ELSE IF cb.once THEN off(b2, cb.id) ELSE b2

ForEach(b, callbacks, i) ==
    IF i > Len(callbacks) THEN b ELSE ForEach(Invoke(b, callbacks[i]), callbacks, i + 1)

emit(b) == ForEach(b, b.listeners, 1)

\* clear()
clear(b) == [b EXCEPT !.listeners = <<>>]

-----------------------------------------------------------------------------
(* Initial state: the ledger after construction (GameState.reset), the     *)
(* systems after their constructors; the JobBoardSystem constructor fills   *)
(* the board with refreshContracts(true).                                  *)

\* two draws of Math.random() results (hundredths): the first gives a contract with
\* repairMultiplier 1.25, payoutMultiplier 1.50 and 61 s, the second 1.50, 1.75 and
\* 68 s (for a common car at tier 1)
QuickDraw == [car |-> 0, repair |-> 22, payout |-> 27, duration |-> 0]
RichDraw == [car |-> 50, repair |-> 72, payout |-> 60, duration |-> 50]

\* the draws of the first fill of the board: offers 1 and 3 quick, offer 2 rich
InitialDraws == << QuickDraw, RichDraw, QuickDraw >>

\* the draws handed to a later operation, consumed front to back
DrawSeqs == { << QuickDraw, RichDraw, QuickDraw >>, << RichDraw, QuickDraw, RichDraw >> }

Last(op, ret, n) == [op |-> op, ret |-> ret, n |-> n]

Init ==
    /\ LET w == refreshContracts(World(reset, 0), TRUE, InitialDraws)
       IN  state = w.s /\ idCounter = w.ids
    /\ comboMultiplier = 100
    /\ lastClickTime = 0
    /\ spawnTimer = 0
    /\ refreshTimer = 0
    /\ now = 0
    /\ events = <<>>
    /\ last = Last("init", "none", 0)
    /\ gameLoop = NewGameLoop
    /\ eventBus = NewEventBus

-----------------------------------------------------------------------------
(* Actions: one per operation of the engine.  last.n counts the XP awards  *)
(* and completed repairs so far; it only bounds the exploration.           *)

\* ProgressionSystem.addXP(amount)
AddXP(amount) ==
    /\ last.n < MaxAwards
    /\ state.garageXP + amount <= MaxGarageXP
    /\ LET w == addXP(World(state, idCounter), amount)
       IN  /\ state' = w.s
           /\ events' = w.ev
    /\ last' = Last("addXP", "none", last.n + 1)
    /\ UNCHANGED <<systems, idCounter, now, services>>

\* GameState.addCurrency(amount), while lifetimeEarnings stays within cap
AddCurrency(amount, cap) ==
    LET w == addCurrency(World(state, idCounter), amount)
    IN  /\ w.s.lifetimeEarnings <= cap
        /\ state' = w.s
        /\ events' = w.ev
        /\ last' = Last("addCurrency", "none", last.n)
        /\ UNCHANGED <<systems, idCounter, now, services>>

\* GameState.spendCurrency(amount)
SpendCurrency(amount) ==
    LET w == spendCurrency(World(state, idCounter), amount)
    IN  /\ state' = w.s
        /\ events' = w.ev
        /\ last' = Last("spendCurrency", w.ret, last.n)
        /\ UNCHANGED <<systems, idCounter, now, services>>

\* UpgradeSystem.purchase(upgradeId)
PurchaseUpgrade(upgradeId) ==
    /\ state.upgrades[upgradeId] < MaxUpgradeLevel
    /\ LET w == purchaseUpgrade(World(state, idCounter), upgradeId)
       IN  /\ state' = w.s
           /\ events' = w.ev
           /\ last' = Last("purchaseUpgrade", w.ret, last.n)
    /\ UNCHANGED <<systems, idCounter, now, services>>

\* NipShopSystem.purchase(upgradeId)
PurchaseNip(upgradeId) ==
    /\ state.nipUpgrades[upgradeId] < MaxNipLevel
    /\ LET w == purchaseNip(World(state, idCounter), upgradeId)
       IN  /\ state' = w.s
           /\ events' = w.ev
           /\ last' = Last("purchaseNip", w.ret, last.n)
    /\ UNCHANGED <<systems, idCounter, now, services>>

\* WorkerSystem.hire(workerId)
Hire(workerId) ==
    /\ Len(state.workers) < MaxWorkers
    /\ LET w == hire(World(state, idCounter), workerId)
       IN  /\ state' = w.s
           /\ events' = w.ev
           /\ last' = Last("hire", w.ret, last.n)
    /\ UNCHANGED <<systems, idCounter, now, services>>

\* PrestigeSystem.prestige()
Prestige ==
    LET w == prestige(World(state, idCounter))
    IN  /\ state' = w.s
        /\ events' = w.ev
        /\ last' = Last("prestige", w.ret, last.n)
        /\ UNCHANGED <<systems, idCounter, now, services>>

\* GameState.recalculateStats(), called on the live ledger
RecalculateStats ==
    /\ state' = recalculateStats(state)
    /\ events' = << >>
    /\ last' = Last("recalculateStats", "none", last.n)
    /\ UNCHANGED <<systems, idCounter, now, services>>

\* ClickSystem.handleClick(x, y), while fewer than clicks clicks have landed
ClickUpTo(hit, clicks) ==
    /\ last.n < MaxRepairs
    /\ state.totalClicks < clicks
    /\ \E draws \in DrawSeqs :
          LET r == handleClick(World(state, idCounter), comboMultiplier, lastClickTime,
                               hit, now, draws)
          IN  /\ state' = r.w.s
              /\ idCounter' = r.w.ids
              /\ events' = r.w.ev
              /\ comboMultiplier' = r.comboMultiplier
              /\ lastClickTime' = r.lastClickTime
              /\ last' = Last("click", r.w.ret,
                              IF r.w.ret = "repaired" THEN last.n + 1 ELSE last.n)
    /\ UNCHANGED <<spawnTimer, refreshTimer, now, services>>

Click(hit) == ClickUpTo(hit, MaxClicks)

\* Game.update(deltaMs): clickSystem.update, workerSystem.update, carQueueSystem.update;
\* pool holds the cars getRandomCar() may draw
Tick(deltaMs, pool) ==
    /\ last.n < MaxRepairs
    /\ \E draws \in DrawSeqs, cars \in [1..SpawnCount(state, spawnTimer + deltaMs) -> pool] :
          \E w1 \in {WorkerUpdate(World(state, idCounter), deltaMs, draws)} :
          \E w2 \in {QueueUpdate(w1, spawnTimer, deltaMs, cars)} :
              /\ comboMultiplier' = ClickUpdate(comboMultiplier, lastClickTime, deltaMs, now)
              /\ state' = w2.s
              /\ idCounter' = w2.ids
              /\ events' = w2.ev
              /\ spawnTimer' = w2.num
              /\ last' = Last("tick", w1.ret,
                              IF w1.ret = "done" THEN last.n + 1 ELSE last.n)
    /\ UNCHANGED <<lastClickTime, refreshTimer, now, services>>

\* JobBoardSystem.update(deltaMs)
JobBoardUpdate(deltaMs) ==
    \E draws \in DrawSeqs :
       LET w0 == World(state, idCounter)
           expires == state.activeJobContract # NoContract
                      /\ now > state.activeJobContract.expiresAt
           w1 == IF expires THEN expireActiveContract(w0, draws) ELSE w0
           due == refreshTimer + deltaMs >= refreshInterval
           w2 == IF due THEN refreshContracts(w1, FALSE, draws) ELSE w1
       IN  /\ w2.ids <= MaxContractIds
           /\ refreshTimer' = IF due THEN 0 ELSE refreshTimer + deltaMs
           /\ state' = w2.s
           /\ idCounter' = w2.ids
           /\ events' = w2.ev
           /\ last' = Last("jobBoardUpdate", IF expires THEN "expired" ELSE "none", last.n)
           /\ UNCHANGED <<comboMultiplier, lastClickTime, spawnTimer, now, services>>

\* JobBoardSystem.acceptContract(contractId), while at most ids contract ids are out
AcceptContractUpTo(contractId, ids) ==
    \E draws \in DrawSeqs :
       LET w == acceptContract(World(state, idCounter), contractId, now, draws)
       IN  /\ w.ids <= ids
           /\ state' = w.s
           /\ idCounter' = w.ids
           /\ events' = w.ev
           /\ last' = Last("acceptContract", w.ret, last.n)
           /\ UNCHANGED <<systems, now, services>>

AcceptContract(contractId) == AcceptContractUpTo(contractId, MaxContractIds)

\* JobBoardSystem.abandonActiveContract()
AbandonContract ==
    \E draws \in DrawSeqs :
       LET w == abandonActiveContract(World(state, idCounter), draws)
       IN  /\ w.ids <= MaxContractIds
           /\ state' = w.s
           /\ idCounter' = w.ids
           /\ events' = w.ev
           /\ last' = Last("abandonContract", w.ret, last.n)
           /\ UNCHANGED <<systems, now, services>>

\* the page is hidden or closed (SaveManager.save writes the ledger as it is) and
\* opened again away ms later: the constructors run (a new ledger, the combo at 1,
\* the timers at 0, performance.now() starting over) and Game.continueFromSave loads
\* the save
ContinueFromSave(away) ==
    \E carId \in {"hatchback"} :
       LET data == serialize(state)
           w == continueFromSave(World(reset, idCounter), data, away, carId)
       IN  /\ now + away <= MaxLoadNow
           /\ state' = w.s
           /\ now' = now + away
           /\ comboMultiplier' = 100
           /\ lastClickTime' = now + away
           /\ spawnTimer' = 0
           /\ refreshTimer' = 0
           /\ events' = w.ev
           /\ last' = Last("continueFromSave", IF w.num > 0 THEN "earned" ELSE "none",
                           last.n)
           /\ UNCHANGED <<idCounter, services>>

\* JobBoardSystem.reconcileAfterLoad()
ReconcileAfterLoad ==
    \E draws \in DrawSeqs :
       LET w == reconcileAfterLoad(World(state, idCounter), now, draws)
       IN  /\ w.ids <= MaxContractIds
           /\ state' = w.s
           /\ idCounter' = w.ids
           /\ events' = w.ev
           /\ last' = Last("reconcileAfterLoad", w.ret, last.n)
           /\ UNCHANGED <<systems, now, services>>

\* CarQueueSystem.forceSpawn()
ForceSpawn(carId) ==
    /\ LET w == forceSpawn(World(state, idCounter), carId)
       IN  /\ state' = w.s
           /\ events' = w.ev
           /\ last' = Last("forceSpawn", "none", last.n)
    /\ UNCHANGED <<systems, idCounter, now, services>>

\* the clock moves on
AdvanceTime(d) ==
    /\ now + d <= MaxNow
    /\ now' = now + d
    /\ events' = <<>>
    /\ last' = Last("advanceTime", "none", last.n)
    /\ UNCHANGED <<state, systems, idCounter, services>>

\* Game.reset(keepPrestige)
GameReset(keepPrestige) ==
    \E carId \in {"hatchback"} :
       LET w == gameReset(World(state, idCounter), keepPrestige, carId)
       IN  /\ state' = w.s
           /\ events' = w.ev
           /\ last' = Last("reset", IF keepPrestige THEN "true" ELSE "false", last.n)
           /\ UNCHANGED <<systems, idCounter, now, services>>

\* performance.now() moves on
PerformanceNow(d) ==
    /\ gameLoop.clock + d <= MaxLoopClock
    /\ gameLoop' = [gameLoop EXCEPT !.clock = @ + d]
    /\ UNCHANGED <<state, systems, idCounter, now, events, last, eventBus>>

\* GameLoop.start()
Start ==
    /\ gameLoop' = start(gameLoop)
    /\ last' = Last("start", "none", last.n)
    /\ UNCHANGED <<state, systems, idCounter, now, events, eventBus>>

\* GameLoop.stop()
Stop ==
    /\ gameLoop' = stop(gameLoop)
    /\ last' = Last("stop", "none", last.n)
    /\ UNCHANGED <<state, systems, idCounter, now, events, eventBus>>

\* GameLoop.pause()
Pause ==
    /\ gameLoop' = pause(gameLoop)
    /\ last' = Last("pause", "none", last.n)
    /\ UNCHANGED <<state, systems, idCounter, now, events, eventBus>>

\* GameLoop.resume()
Resume ==
    /\ gameLoop' = resume(gameLoop)
    /\ last' = Last("resume", "none", last.n)
    /\ UNCHANGED <<state, systems, idCounter, now, events, eventBus>>

\* GameLoop.loop(currentTime): the frame callback
Loop ==
    /\ gameLoop' = loop(gameLoop)
    /\ last' = Last("loop", "none", last.n)
    /\ UNCHANGED <<state, systems, idCounter, now, events, eventBus>>

\* EventBus.on / EventBus.once with a callback of the given kind
On(once, kind) ==
    /\ Len(eventBus.calls) < MaxHandlers
    /\ eventBus' = on(eventBus, once, kind)
    /\ last' = Last(IF once THEN "once" ELSE "on", "none", last.n)
    /\ UNCHANGED <<state, systems, idCounter, now, events, gameLoop>>

\* EventBus.emit(event, data)
EmitEvent ==
    /\ \A id \in 1..Len(eventBus.calls) : eventBus.calls[id].n < MaxCalls
    /\ eventBus' = emit(eventBus)
    /\ last' = Last("emit", "none", last.n)
    /\ UNCHANGED <<state, systems, idCounter, now, events, gameLoop>>

\* EventBus.clear()
Clear ==
    /\ eventBus' = clear(eventBus)
    /\ last' = Last("clear", "none", last.n)
    /\ UNCHANGED <<state, systems, idCounter, now, events, gameLoop>>

-----------------------------------------------------------------------------
(* SpecXP: the progression engine alone, driven by addXP calls.            *)

XPAmounts == {1, 98, 99, 100, 114, 250, 1300, 782874000}

NextXP == \E amount \in XPAmounts : AddXP(amount)

SpecXP == Init /\ [][NextXP]_vars

-----------------------------------------------------------------------------
(* Spec: the garage floor.  The run is in progress: the ledger is the one  *)
(* that construction, a grant of 13000, the purchase of the hydraulic lift *)
(* (a click then repairs 51 points) and the hire of a master maid (25      *)
(* points per second) produce.  Cars arrive by ticks; contracts are        *)
(* accepted, abandoned, finished by clicks or by the worker, or expire.    *)

\* the ledger after addCurrency(13000), purchase('hydraulicLift'), hire('masterMaid')
Equipped(s) ==
    hire(purchaseUpgrade(addCurrency(World(s, 0), 13000), "hydraulicLift"), "masterMaid").s

InitGarage ==
    /\ LET w == refreshContracts(World(Equipped(reset), 0), TRUE, InitialDraws)
       IN  state = w.s /\ idCounter = w.ids
    /\ comboMultiplier = 100
    /\ lastClickTime = 0
    /\ spawnTimer = 0
    /\ refreshTimer = 0
    /\ now = 0
    /\ events = <<>>
    /\ last = Last("init", "none", 0)
    /\ gameLoop = NewGameLoop
    /\ eventBus = NewEventBus

SpawnPool == {"hatchback"}
TickDeltas == {152000}
JobDeltas == {25000}
TimeSteps == {61000}

Next ==
    \/ \E hit \in BOOLEAN : Click(hit)
    \/ \E deltaMs \in TickDeltas : Tick(deltaMs, SpawnPool)
    \/ \E deltaMs \in JobDeltas : JobBoardUpdate(deltaMs)
    \/ \E contractId \in OfferIds(state) \cup {0} : AcceptContract(contractId)
    \/ AbandonContract
    \/ \E d \in TimeSteps : AdvanceTime(d)

Spec == InitGarage /\ [][Next]_vars

-----------------------------------------------------------------------------
(* SpecQueue: the car queue of the same garage: tick spawns, forced        *)
(* spawns, contract cars put in front, abandons, repairs.                  *)

QueueTickDeltas == {7600}

NextQueue ==
    \/ Click(TRUE)
    \/ \E deltaMs \in QueueTickDeltas : Tick(deltaMs, SpawnPool)
    \/ \E carId \in SpawnPool : ForceSpawn(carId)
    \/ \E contractId \in OfferIds(state) : AcceptContract(contractId)
    \/ AbandonContract

SpecQueue == InitGarage /\ [][NextQueue]_vars

-----------------------------------------------------------------------------
(* SpecEconomy: the ledger from construction: grants, spending, the two    *)
(* shops, hiring, repairs by click and by worker, prestige.                *)

EconomyGrants == {2000000}
SpendAmounts == {3000000}
EconomyUpgrades == {"hydraulicLift"}
EconomyNipUpgrades == {"sharpenedPaws"}
EconomyWorkers == {"masterMaid"}
EconomyContracts == {1}

NextEconomy ==
    \/ \E amount \in EconomyGrants : AddCurrency(amount, MaxLifetimeEarnings)
    \/ \E amount \in SpendAmounts : SpendCurrency(amount)
    \/ \E upgradeId \in EconomyUpgrades : PurchaseUpgrade(upgradeId)
    \/ \E upgradeId \in EconomyNipUpgrades : PurchaseNip(upgradeId)
    \/ \E workerId \in EconomyWorkers : Hire(workerId)
    \/ Prestige
    \/ \E contractId \in EconomyContracts : AcceptContract(contractId)
    \/ Click(TRUE)
    \/ \E deltaMs \in TickDeltas : Tick(deltaMs, SpawnPool)

SpecEconomy == Init /\ [][NextEconomy]_vars

-----------------------------------------------------------------------------
(* SpecLedger: every way currency moves within a run, from construction:   *)
(* grants, spending, the upgrade shop, hiring, repairs by click and by the *)
(* worker, and the offline earnings credited on load.                      *)

LedgerGrants == {2500}
LedgerSpends == {2000}
LedgerUpgrades == {"wrench"}
LedgerWorkers == {"masterMaid"}
LedgerAways == {62000}

NextLedger ==
    \/ \E amount \in LedgerGrants : AddCurrency(amount, MaxLedgerEarnings)
    \/ \E amount \in LedgerSpends : SpendCurrency(amount)
    \/ \E upgradeId \in LedgerUpgrades : PurchaseUpgrade(upgradeId)
    \/ \E workerId \in LedgerWorkers : Hire(workerId)
    \/ Click(TRUE)
    \/ \E deltaMs \in TickDeltas : Tick(deltaMs, SpawnPool)
    \/ \E away \in LedgerAways : ContinueFromSave(away)

SpecLedger == Init /\ [][NextLedger]_vars

-----------------------------------------------------------------------------
(* SpecLift: the lift from construction, when no car has arrived yet.  The  *)
(* game loop keeps calling update; a grant pays for a worker and makes a    *)
(* prestige reset claimable, and the worker finishes cars.                  *)

LiftTickDeltas == {3000}
LiftGrants == {1000000}
LiftWorkers == {"masterMaid"}

NextLift ==
    \/ \E deltaMs \in LiftTickDeltas : Tick(deltaMs, SpawnPool)
    \/ \E amount \in LiftGrants : AddCurrency(amount, MaxLiftEarnings)
    \/ \E workerId \in LiftWorkers : Hire(workerId)
    \/ Prestige

SpecLift == Init /\ [][NextLift]_vars

\* requestAnimationFrame keeps the loop running, and every frame calls update
SpecLiftFair ==
    SpecLift /\ WF_vars(\E deltaMs \in LiftTickDeltas : Tick(deltaMs, SpawnPool))

-----------------------------------------------------------------------------
(* SpecShop: the ledger alone: grants, spending, the upgrade shop, the Nip *)
(* shop, hiring, prestige and recalculation of the derived values.         *)

ShopGrants == {1000000}
ShopSpends == {1000000}
ShopUpgrades == {"hydraulicLift", "diagnosticComputer", "neonSign"}
ShopNipUpgrades == {"sharpenedPaws", "loyalClients"}
ShopWorkers == {"masterMaid", "legendaryMaid"}

NextShop ==
    \/ \E amount \in ShopGrants : AddCurrency(amount, MaxLifetimeEarnings)
    \/ \E amount \in ShopSpends : SpendCurrency(amount)
    \/ \E upgradeId \in ShopUpgrades : PurchaseUpgrade(upgradeId)
    \/ \E upgradeId \in ShopNipUpgrades : PurchaseNip(upgradeId)
    \/ \E workerId \in ShopWorkers : Hire(workerId)
    \/ Prestige
    \/ RecalculateStats

SpecShop == Init /\ [][NextShop]_vars

-----------------------------------------------------------------------------
(* SpecCombo: the combo of the click engine.  A new game has started (the   *)
(* board is filled, forceSpawn has put a hatchback on the lift), either on  *)
(* a fresh ledger or on one that earned 9,000,000, took the prestige and    *)
(* bought Combo Instinct.  Clicks land or miss, updates run with 1 s        *)
(* steps, the clock moves in seconds.                                      *)

\* the ledger after addCurrency(9000000), prestige(), NipShopSystem.purchase('comboInstinct')
WithComboInstinct(s) ==
    purchaseNip(prestige(addCurrency(World(s, 0), 9000000)), "comboInstinct").s

ComboLedgers == {reset, WithComboInstinct(reset)}

InitCombo ==
    /\ \E ledger \in ComboLedgers :
          LET w0 == refreshContracts(World(ledger, 0), TRUE, InitialDraws)
              w  == forceSpawn(w0, "hatchback")
          IN  state = w.s /\ idCounter = w.ids
    /\ comboMultiplier = 100
    /\ lastClickTime = 0
    /\ spawnTimer = 0
    /\ refreshTimer = 0
    /\ now = 0
    /\ events = <<>>
    /\ last = Last("init", "none", 0)
    /\ gameLoop = NewGameLoop
    /\ eventBus = NewEventBus

ComboTickDeltas == {1000}
ComboTimeSteps == {1000}

NextCombo ==
    \/ \E hit \in BOOLEAN : now <= LastClickBy /\ ClickUpTo(hit, MaxComboClicks)
    \/ \E deltaMs \in ComboTickDeltas : Tick(deltaMs, SpawnPool)
    \/ \E d \in ComboTimeSteps : now + d <= MaxComboNow /\ AdvanceTime(d)

SpecCombo == InitCombo /\ [][NextCombo]_vars

\* the game loop keeps calling update, and the clock keeps running (to MaxComboNow)
SpecComboFair ==
    /\ SpecCombo
    /\ WF_vars(\E deltaMs \in ComboTickDeltas : Tick(deltaMs, SpawnPool))
    /\ WF_vars(\E d \in ComboTimeSteps : now + d <= MaxComboNow /\ AdvanceTime(d))

-----------------------------------------------------------------------------
(* SpecRepair: repairing by hand, one unhurried click at a time.  A new     *)
(* game has started with a hatchback on the lift, on a fresh ledger (click  *)
(* power 1) or on one with two wrenches and the diagnostic computer (click  *)
(* power 3, car value multiplier 1.1).  Every click comes at least the      *)
(* combo timeout after the previous one, so the combo stays at 1; when the  *)
(* lift is empty the next hatchback is brought in.                          *)

\* the ledger after addCurrency(13000) and the purchases of wrench, wrench and
\* diagnosticComputer
WithTools(s) ==
    purchaseUpgrade(
        purchaseUpgrade(
            purchaseUpgrade(addCurrency(World(s, 0), 13000), "wrench"),
            "wrench"),
        "diagnosticComputer").s

RepairLedgers == {reset, WithTools(reset)}

InitRepair ==
    /\ \E ledger \in RepairLedgers :
          LET w0 == refreshContracts(World(ledger, 0), TRUE, InitialDraws)
              w  == forceSpawn(w0, "hatchback")
          IN  state = w.s /\ idCounter = w.ids
    /\ comboMultiplier = 100
    /\ lastClickTime = 0
    /\ spawnTimer = 0
    /\ refreshTimer = 0
    /\ now = 0
    /\ events = <<>>
    /\ last = Last("init", "none", 0)
    /\ gameLoop = NewGameLoop
    /\ eventBus = NewEventBus

RepairTimeSteps == {1000}

NextRepair ==
    \/ now - lastClickTime >= comboTimeout /\ ClickUpTo(TRUE, MaxRepairClicks)
    \/ \E carId \in SpawnPool : state.currentCar = NoCar /\ ForceSpawn(carId)
    \/ \E d \in RepairTimeSteps : now + d <= MaxRepairNow /\ AdvanceTime(d)

SpecRepair == InitRepair /\ [][NextRepair]_vars

-----------------------------------------------------------------------------
(* SpecCrew: the workers at the lift.  A new game has started with a        *)
(* hatchback on the lift and a master maid hired, either on the equipped    *)
(* ledger of Spec or on one that earned 9,000,000, took the prestige and    *)
(* bought Tuned Crew or Quick Dispatch before the hire.  Only updates run.  *)

\* the ledger after addCurrency(9000000), prestige(), NipShopSystem.purchase('tunedCrew'),
\* addCurrency(13000), hire('masterMaid')
WithTunedCrew(s) ==
    hire(addCurrency(purchaseNip(prestige(addCurrency(World(s, 0), 9000000)),
                                 "tunedCrew"),
                     13000),
         "masterMaid").s

\* the same with NipShopSystem.purchase('quickDispatch') in place of Tuned Crew
WithQuickDispatch(s) ==
    hire(addCurrency(purchaseNip(prestige(addCurrency(World(s, 0), 9000000)),
                                 "quickDispatch"),
                     13000),
         "masterMaid").s

CrewLedgers == {Equipped(reset), WithTunedCrew(reset), WithQuickDispatch(reset)}

InitCrew ==
    /\ \E ledger \in CrewLedgers :
          LET w0 == refreshContracts(World(ledger, 0), TRUE, InitialDraws)
              w  == forceSpawn(w0, "hatchback")
          IN  state = w.s /\ idCounter = w.ids
    /\ comboMultiplier = 100
    /\ lastClickTime = 0
    /\ spawnTimer = 0
    /\ refreshTimer = 0
    /\ now = 0
    /\ events = <<>>
    /\ last = Last("init", "none", 0)
    /\ gameLoop = NewGameLoop
    /\ eventBus = NewEventBus

CrewTickDeltas == {200, 1000}

NextCrew == \E deltaMs \in CrewTickDeltas : Tick(deltaMs, SpawnPool)

SpecCrew == InitCrew /\ [][NextCrew]_vars

-----------------------------------------------------------------------------
(* SpecLoad: the garage of Spec across page loads.  A contract is accepted, *)
(* clicks repair cars, the page is left and opened again 30 s or 62 s      *)
(* later (a contract of 61 s is then past its deadline, one of 68 s is     *)
(* not), and the job board reconciles the loaded contract.                 *)

LoadAways == {30000, 62000}

NextLoad ==
    \/ Click(TRUE)
    \/ \E contractId \in OfferIds(state) : AcceptContract(contractId)
    \/ \E away \in LoadAways : ContinueFromSave(away)
    \/ ReconcileAfterLoad

SpecLoad == InitGarage /\ [][NextLoad]_vars

-----------------------------------------------------------------------------
(* SpecLoop: the GameLoop alone.  The clock moves by 30 or 810 thirds of   *)
(* a millisecond between the calls; frames, pauses and resumes come in    *)
(* any order.                                                              *)

ClockSteps == {30, 810}

NextLoop ==
    \/ \E d \in ClockSteps : PerformanceNow(d)
    \/ Start
    \/ Stop
    \/ Pause
    \/ Resume
    \/ Loop

SpecLoop == Init /\ [][NextLoop]_vars

-----------------------------------------------------------------------------
(* SpecBus: the EventBus alone: handlers are registered with on and once,  *)
(* the event is emitted, the bus is cleared.                               *)

NextBus ==
    \/ \E once \in BOOLEAN, kind \in HandlerKinds : On(once, kind)
    \/ EmitEvent
    \/ Clear

SpecBus == Init /\ [][NextBus]_vars

-----------------------------------------------------------------------------
(* SpecReset: the shop of SpecShop with Game.reset.                        *)

NextReset ==
    \/ NextShop
    \/ \E keepPrestige \in BOOLEAN : GameReset(keepPrestige)

SpecReset == Init /\ [][NextReset]_vars

-----------------------------------------------------------------------------
(* SpecContracts: the garage of Spec with two contracts in a row (offer 1   *)
(* of the first board, then the offer generated in its place): accepts,    *)
(* clicks, worker ticks, job board updates, abandons and the clock.        *)

ContractPicks == {1, 4}

NextContracts ==
    \/ Click(TRUE)
    \/ \E deltaMs \in TickDeltas : Tick(deltaMs, SpawnPool)
    \/ \E deltaMs \in JobDeltas : JobBoardUpdate(deltaMs)
    \/ \E contractId \in OfferIds(state) \cap ContractPicks :
          AcceptContractUpTo(contractId, MaxResolveIds)
    \/ AbandonContract
    \/ \E d \in TimeSteps : AdvanceTime(d)

SpecContracts == InitGarage /\ [][NextContracts]_vars

-----------------------------------------------------------------------------
(* Claims.                                                                 *)

\* the CAR_REPAIRED events among evs
RepairedEvents(evs) == SelectSeq(evs, LAMBDA e : e.type = "CAR_REPAIRED")

HasEv(evs, type, n) == \E i \in 1..Len(evs) : evs[i].type = type /\ evs[i].n = n

\* C1: in every state reachable by addCurrency (non-negative amounts), spendCurrency,
\* upgrade purchases, worker hires, clicks, worker ticks, repair completions and
\* prestige resets, currency is >= 0.
C1_CurrencyNonNegative == state.currency >= 0

\* C1 witness: spendCurrency was asked for more than the ledger held, and refused
C1_Witness ==
    /\ last.op = "spendCurrency"
    /\ last.ret = "false"
    /\ state.currency = 2000000
    /\ state.totalSpent = 0

\* C2 as stated: every step that completes a repair, by a click or by the worker tick,
\* publishes exactly one CAR_REPAIRED carrying the auto-repair flag and the contract
\* outcome (null for a plain car), credits that payment exactly once, adds 1 to
\* carsRepaired and awards the base XP floor(repairCost / 10 * xpMultiplier).
C2_SingleCompletionPath ==
    [][ last'.ret \in {"repaired", "done"} =>
          LET car == state.currentCar
              done == RepairedEvents(events')
          IN  /\ Len(done) = 1
              /\ done[1].auto = (IF last'.op = "tick" THEN "true" ELSE "false")
              /\ done[1].res \in {"null", "inTime", "late"}
              /\ CountEv(events', "CURRENCY_EARNED") = 1
              /\ state'.totalEarned = state.totalEarned
                    + MulDivFloor(done[1].n,
                                  state.incomeMultiplier * state.prestigeMultiplier, 10000)
              /\ state'.carsRepaired = state.carsRepaired + 1
              /\ HasEv(events', "XP_EARNED", (car.repairCost * state.xpMultiplier) \div 1000)
      ]_vars

\* C3 as stated: when the car tagged with the active contract becomes fully repaired
\* at a time <= expiresAt and is not marked expired, by a click or by the worker tick,
\* the payment is the plain payment times payoutMultiplier, floor(bonusXP * xpMultiplier)
\* bonus XP is awarded, contractsCompleted grows by 1, contractsFailed is unchanged and
\* the active slot is cleared.
C3_InTimeContractRewarded ==
    [][ LET car == state.currentCar
            done == RepairedEvents(events')
            clickBonus == IF last'.op = "click"
                          THEN 100 + (Max(0, comboMultiplier' - 100) \div 2)
                          ELSE 100
            plain == MulDivFloor(car.baseValue,
                                 getCarValueMultiplier(state) * clickBonus, 10000)
        IN  (/\ last'.ret \in {"repaired", "done"}
             /\ state.activeJobContract # NoContract
             /\ Tagged(car, state.activeJobContract.id)
             /\ ~car.contractMeta.expired
             /\ now <= car.contractMeta.expiresAt)
            => /\ Len(done) = 1
               /\ done[1].n = (plain * car.contractMeta.payoutMultiplier) \div 100
               /\ HasEv(events', "XP_EARNED",
                        (car.contractMeta.bonusXP * state.xpMultiplier) \div 100)
               /\ state'.contractsCompleted = state.contractsCompleted + 1
               /\ state'.contractsFailed = state.contractsFailed
               /\ state'.activeJobContract = NoContract
      ]_vars

\* C4: a contract car fully repaired after expiresAt never yields the contract bonus,
\* whether or not the expiry check has run: the payment is the plain payment, no XP
\* beyond the base XP is awarded, contractsCompleted does not change, and the contract
\* is counted as failed exactly once: by this repair when the active slot still holds
\* it, and otherwise by the expiry check, which counted it, cleared the slot and marked
\* the car.  At every moment each accepted contract is exactly one of active, completed
\* or failed (the id counter has issued the 3 first offers and one offer per accept).
C4_LateContractNoBonus ==
    /\ [](state.contractsCompleted + state.contractsFailed
            + (IF state.activeJobContract = NoContract THEN 0 ELSE 1) = idCounter - 3)
    /\ [][ LET car == state.currentCar
               done == RepairedEvents(events')
               clickBonus == IF last'.op = "click"
                             THEN 100 + (Max(0, comboMultiplier' - 100) \div 2)
                             ELSE 100
               plain == MulDivFloor(car.baseValue,
                                    getCarValueMultiplier(state) * clickBonus, 10000)
               stillActive == /\ state.activeJobContract # NoContract
                              /\ Tagged(car, state.activeJobContract.id)
           IN  (/\ last'.ret \in {"repaired", "done"}
                /\ car.contractMeta # NoMeta
                /\ now > car.contractMeta.expiresAt)
               => /\ Len(done) = 1
                  /\ done[1].n = plain
                  /\ state'.garageXP <= state.garageXP
                        + (car.repairCost * state.xpMultiplier) \div 1000
                  /\ state'.contractsCompleted = state.contractsCompleted
                  /\ state'.contractsFailed =
                        state.contractsFailed + (IF stillActive THEN 1 ELSE 0)
                  /\ (~stillActive => car.contractMeta.expired)
                  /\ state'.activeJobContract =
                        (IF stillActive THEN NoContract ELSE state.activeJobContract)
         ]_vars
    /\ [][ last'.ret = "expired" =>
              /\ state'.contractsFailed = state.contractsFailed + 1
              /\ state'.contractsCompleted = state.contractsCompleted
              /\ state'.activeJobContract = NoContract
         ]_vars

\* C4 witness: the expiry check had not run when a click finished the contract car
\* after its deadline; the repair itself reported the contract late
C4_Witness ==
    /\ last.op = "click" /\ last.ret = "repaired"
    /\ Len(RepairedEvents(events)) = 1
    /\ RepairedEvents(events)[1].res = "late"
    /\ RepairedEvents(events)[1].n = 25
    /\ CountEv(events, "JOB_FAILED") = 1
    /\ now > 68000
    /\ state.contractsFailed = 1
    /\ state.contractsCompleted = 0

\* the cars in the garage: the current car and the queue
GarageCars(s) == (IF s.currentCar = NoCar THEN << >> ELSE << s.currentCar >>) \o s.carQueue

\* the contracts that still have an unexpired car in the garage
LiveContractIds(s) ==
    {GarageCars(s)[i].contractMeta.id :
        i \in {j \in 1..Len(GarageCars(s)) :
                  /\ GarageCars(s)[j].contractMeta # NoMeta
                  /\ ~GarageCars(s)[j].contractMeta.expired}}

\* C5: in every reachable state jobContracts holds at most 3 open offers and there is
\* at most one active contract: the one slot holds a contract that is no longer on the
\* board, and every unexpired contract car in the garage belongs to it.
C5_BoardWithinCaps ==
    /\ Len(state.jobContracts) <= 3
    /\ Cardinality(OfferIds(state)) = Len(state.jobContracts)
    /\ Cardinality(LiveContractIds(state)) <= 1
    /\ state.activeJobContract # NoContract =>
          /\ state.activeJobContract.id \notin OfferIds(state)
          /\ LiveContractIds(state) \subseteq {state.activeJobContract.id}
    /\ state.activeJobContract = NoContract => LiveContractIds(state) = {}

\* C5 witness: a contract was accepted and the board was filled to 3 offers again
C5_Witness ==
    /\ last.op = "acceptContract" /\ last.ret = "true"
    /\ state.activeJobContract # NoContract
    /\ Len(state.jobContracts) = 3
    /\ LiveContractIds(state) = {state.activeJobContract.id}

\* C6: carQueue never holds more than 5 cars, after tick spawns, forced spawns,
\* contract accepts (also into a full queue), abandons and repairs; a tick that starts
\* with 5 cars in the queue spawns no car.
C6_QueueWithinCap ==
    /\ [](Len(state.carQueue) <= 5)
    /\ [][ (last'.op = "tick" /\ Len(state.carQueue) = 5) =>
              CountEv(events', "CAR_QUEUED") = 0 ]_vars
    /\ [][ (last'.op = "acceptContract" /\ last'.ret = "true" /\ Len(state.carQueue) = 5) =>
              Len(state'.carQueue) = 5 ]_vars

\* C6 witness: a tick started with 5 cars queued and the timer past the spawn interval
\* at its end: it published no CAR_QUEUED and moved one car of the 5 to the bay
C6_Witness ==
    /\ last.op = "tick"
    /\ spawnTimer >= getSpawnInterval(state)
    /\ CountEv(events, "CAR_QUEUED") = 0
    /\ HasEv(events, "CAR_STARTED", 4)
    /\ Len(state.carQueue) = 4

\* the largest level whose cumulative threshold in the XP table is <= xp
LargestLevel(xp) ==
    CHOOSE l \in 1..(Len(XpForLevel) + 1) :
        /\ XP_TABLE[l - 1] <= xp
        /\ \A m \in 1..(Len(XpForLevel) + 1) : XP_TABLE[m - 1] <= xp => m <= l

\* C7: after every addXP call garageLevel is the largest level whose cumulative
\* threshold in the XP table is <= garageXP; a total of 99 or less leaves the level
\* at 1, and the award that takes the total from below 100 to 100 (and below the
\* level-3 threshold) sets level 2 and publishes exactly one LEVEL_UP.
C7_LevelIsLargestReached ==
    /\ state.garageLevel = LargestLevel(state.garageXP)
    /\ (state.garageXP <= 99 => state.garageLevel = 1 /\ CountEv(events, "LEVEL_UP") = 0)
    /\ (/\ last.op = "addXP"
        /\ state.garageXP - events[1].n < 100
        /\ state.garageXP >= 100
        /\ state.garageXP < XP_TABLE[2])
       => (state.garageLevel = 2 /\ CountEv(events, "LEVEL_UP") = 1)

\* C7 witness: 99 XP were awarded first (level 1), then 1 more XP gave level 2
C7_Witness ==
    /\ last.op = "addXP"
    /\ events[1].type = "XP_EARNED" /\ events[1].n = 1
    /\ state.garageXP = 100
    /\ state.garageLevel = 2

\* C8 as stated: currentTier = floor((garageLevel - 1) / 10) + 1
C8_TierAsClaimed == state.currentTier = ((state.garageLevel - 1) \div 10) + 1

\* C8 amended: in every state reached by awarding XP,
\* currentTier = floor(garageLevel / 10) + 1 (levels 1-9 tier 1, 10-19 tier 2, ...)
C8_TierFromLevel == state.currentTier = (state.garageLevel \div 10) + 1

\* C8 witness: an award reached level 10 exactly, the first multiple of 10
C8_Witness ==
    /\ last.op = "addXP"
    /\ state.garageLevel = 10
    /\ state.currentTier = 2

\* C9 as stated: after any addXP call unlockedCars holds every car whose milestone
\* level is <= garageLevel
C9_MilestonesUnlocked ==
    \A l \in UnlockLevels :
        l <= state.garageLevel => CAR_UNLOCKS[l] \subseteq state.unlockedCars

\* C10: a successful prestige() adds the claimable amount to prestigeCurrency and to
\* totalPrestigeEarned, leaves nipUpgrades and lifetimeEarnings unchanged, and leaves
\* the rest of the run at its new-run default: currency 0, totalEarned 0, garageXP 0,
\* garageLevel 1, currentTier 1, unlockedCars = {hatchback}, no workers, no worker
\* counts, empty queue, no current car, no offers, no active contract, no regular
\* upgrades, no achievements, and the run's counters at 0.
C10_PrestigeFrame ==
    [][ (last'.op = "prestige" /\ last'.ret = "true") =>
          LET claimable == calculateClaimableNip(state)
          IN  /\ claimable > 0
              /\ state'.prestigeCurrency = state.prestigeCurrency + claimable
              /\ state'.totalPrestigeEarned = state.totalPrestigeEarned + claimable
              /\ state'.nipUpgrades = state.nipUpgrades
              /\ state'.lifetimeEarnings = state.lifetimeEarnings
              /\ state'.currency = 0
              /\ state'.totalEarned = 0
              /\ state'.totalSpent = 0
              /\ state'.garageXP = 0
              /\ state'.garageLevel = 1
              /\ state'.currentTier = 1
              /\ state'.unlockedCars = {"hatchback"}
              /\ state'.workers = << >>
              /\ \A workerId \in WorkerIds : state'.workerCounts[workerId] = 0
              /\ state'.autoRepairRate = 0
              /\ state'.carQueue = << >>
              /\ state'.currentCar = NoCar
              /\ state'.jobContracts = << >>
              /\ state'.activeJobContract = NoContract
              /\ \A upgradeId \in UpgradeIds : state'.upgrades[upgradeId] = 0
              /\ state'.achievements = {}
              /\ state'.carsRepaired = 0
              /\ state'.totalClicks = 0
              /\ state'.contractsCompleted = 0
              /\ state'.contractsFailed = 0
      ]_vars

\* C10 witness: the second prestige of a game, with a Nip upgrade bought in between:
\* 1 Nip was claimed at 2,000,000 lifetime earnings and spent on sharpenedPaws, and
\* this prestige claimed the second Nip at 4,000,000 or more
C10_Witness ==
    /\ last.op = "prestige" /\ last.ret = "true"
    /\ state.totalPrestigeEarned = 2
    /\ state.prestigeCurrency = 1
    /\ state.nipUpgrades["sharpenedPaws"] = 1
    /\ state.lifetimeEarnings >= 4000000
    /\ state.currency = 0

\* C11: when calculateClaimableNip() is 0, prestige() returns false, changes no field
\* of the ledger and emits no event.
C11_NothingToClaim ==
    [][ (last'.op = "prestige" /\ calculateClaimableNip(state) = 0) =>
            /\ last'.ret = "false"
            /\ state' = state
            /\ events' = << >>
      ]_vars

\* C11 witness: prestige() was refused in a run that had already claimed its Nip and
\* has earned since; the earnings are still in the ledger
C11_Witness ==
    /\ last.op = "prestige" /\ last.ret = "false"
    /\ state.totalPrestigeEarned >= 1
    /\ state.lifetimeEarnings >= 2000000
    /\ state.currency >= 1000000
    /\ calculateClaimableNip(state) = 0

\* lifetime earnings around the thresholds of 1, 2, 3 and 4 Nip
NipEarnings == {0, 1, 999999, 1000000, 1000001, 3999999, 4000000, 8999999, 9000000,
                15999999, 16000000}

\* the ledger with other lifetime earnings
WithEarnings(s, earnings) == [s EXCEPT !.lifetimeEarnings = earnings]

\* C12: for the totalPrestigeEarned (and prestigeCurrency) of any reachable ledger,
\* calculateClaimableNip() is never negative, is 0 whenever lifetimeEarnings is below
\* 1,000,000, and does not decrease when lifetimeEarnings increases.
C12_ClaimableMonotone ==
    LET samples == NipEarnings \cup {state.lifetimeEarnings}
    IN  \A low \in samples :
           /\ calculateClaimableNip(WithEarnings(state, low)) >= 0
           /\ low < 1000000 => calculateClaimableNip(WithEarnings(state, low)) = 0
           /\ \A high \in samples :
                 low <= high => calculateClaimableNip(WithEarnings(state, low))
                                   <= calculateClaimableNip(WithEarnings(state, high))

\* C12 witness: a grant took the lifetime earnings of a run that holds 1 earned Nip past
\* 4,000,000, and 1 more Nip became claimable
C12_Witness ==
    /\ last.op = "addCurrency"
    /\ state.totalPrestigeEarned = 1
    /\ state.lifetimeEarnings >= 4000000
    /\ calculateClaimableNip(state) = 1

\* C13: totalPrestigeEarned >= prestigeCurrency in every state reachable by prestige
\* resets and Nip upgrade purchases.
C13_LifetimeNipCoversHeld == state.totalPrestigeEarned >= state.prestigeCurrency

\* C13 witness: of 2 Nip earned, 1 was spent in the Nip shop
C13_Witness ==
    /\ last.op = "purchaseNip" /\ last.ret = "true"
    /\ state.totalPrestigeEarned = 2
    /\ state.prestigeCurrency = 1

\* C14 as stated: after any sequence of regular-upgrade and Nip-upgrade purchases, the
\* clickPower, carValueBonus and incomeMultiplier left in the ledger equal the values
\* recalculateStats() computes from the same upgrade levels.
C14_IncrementalEqualsRecalculated ==
    LET recalculated == recalculateStats(state)
    IN  /\ state.clickPower = recalculated.clickPower
        /\ state.carValueBonus = recalculated.carValueBonus
        /\ state.incomeMultiplier = recalculated.incomeMultiplier

\* C15: recalculateStats() is idempotent: in any state, a second call with no purchase
\* in between leaves every derived value (clickPower, all multipliers and bonuses,
\* prestigeMultiplier, autoRepairRate), and with them the whole ledger, unchanged.
C15_RecalculateIdempotent ==
    LET once == recalculateStats(state)
        twice == recalculateStats(once)
    IN  /\ twice = once
        /\ last.op = "recalculateStats" => once = state

\* C15 witness: recalculateStats() ran on a ledger with a regular upgrade, a Nip upgrade
\* and a worker, and left clickPower floor((1 + 50) * 1.2) = 61
C15_Witness ==
    /\ last.op = "recalculateStats"
    /\ state.upgrades["hydraulicLift"] = 1
    /\ state.nipUpgrades["sharpenedPaws"] = 1
    /\ Len(state.workers) = 1
    /\ state.clickPower = 61
    /\ state.autoRepairRate = 2500

\* C16 as stated: for every upgrade in UpgradeData and NipUpgradeData and every level L
\* with 0 <= L < maxLevel, the cost floor(baseCost * costGrowth^L) is strictly smaller
\* than the cost at level L + 1.
C16_CostsStrictlyIncreasing ==
    /\ \A upgradeId \in UpgradeIds :
          \A level \in 0..(UpgradeData[upgradeId].maxLevel - 1) :
              getUpgradeCost([state EXCEPT !.upgrades[upgradeId] = level], upgradeId)
                < getUpgradeCost([state EXCEPT !.upgrades[upgradeId] = level + 1], upgradeId)
    /\ \A upgradeId \in NipUpgradeIds :
          \A level \in 0..(NipUpgradeData[upgradeId].maxLevel - 1) :
              getNipCost([state EXCEPT !.nipUpgrades[upgradeId] = level], upgradeId)
                < getNipCost([state EXCEPT !.nipUpgrades[upgradeId] = level + 1], upgradeId)

\* what C17 says a refused call leaves alone
Untouched(s, t) ==
    /\ t.currency = s.currency
    /\ t.prestigeCurrency = s.prestigeCurrency
    /\ t.totalSpent = s.totalSpent
    /\ t.upgrades = s.upgrades
    /\ t.nipUpgrades = s.nipUpgrades
    /\ t.workers = s.workers
    /\ t.workerCounts = s.workerCounts

\* C17: a spend, an upgrade purchase, a Nip upgrade purchase or a worker hire whose cost
\* exceeds the relevant balance (currency, or prestigeCurrency for the Nip shop) returns
\* false and leaves the balance, totalSpent, the upgrade levels, the worker roster and
\* the owned-count cache unchanged; in fact the whole ledger is unchanged and nothing is
\* published.
C17_RefusedWithoutMutation ==
    [][ /\ \A amount \in ShopSpends :
              (SpendCurrency(amount) /\ amount > state.currency)
                  => (last'.ret = "false" /\ Untouched(state, state')
                      /\ state' = state /\ events' = << >>)
        /\ \A upgradeId \in ShopUpgrades :
              (PurchaseUpgrade(upgradeId) /\ getUpgradeCost(state, upgradeId) > state.currency)
                  => (last'.ret = "false" /\ Untouched(state, state')
                      /\ state' = state /\ events' = << >>)
        /\ \A upgradeId \in ShopNipUpgrades :
              (PurchaseNip(upgradeId)
                 /\ getNipCost(state, upgradeId) > state.prestigeCurrency)
                  => (last'.ret = "false" /\ Untouched(state, state')
                      /\ state' = state /\ events' = << >>)
        /\ \A workerId \in ShopWorkers :
              (Hire(workerId) /\ getWorkerCost(state, workerId) > state.currency)
                  => (last'.ret = "false" /\ Untouched(state, state')
                      /\ state' = state /\ events' = << >>)
      ]_vars

\* a hire was just refused although the player holds money (less than the worker costs),
\* and the roster is still empty
C17_Witness ==
    /\ last.op = "hire" /\ last.ret = "false"
    /\ state.currency > 0
    /\ \E workerId \in ShopWorkers : getWorkerCost(state, workerId) > state.currency
    /\ state.workers = << >>
    /\ state.totalSpent > 0

\* the offer with the given id on the board of s
OfferOf(s, contractId) ==
    s.jobContracts[CHOOSE i \in 1..Len(s.jobContracts) : s.jobContracts[i].id = contractId]

ExpiredIfTagged(car, contractId) ==
    IF car # NoCar /\ Tagged(car, contractId)
    THEN [car EXCEPT !.contractMeta.expired = TRUE] ELSE car

C20_AbandonContract ==
    [][ AbandonContract =>
          IF state.activeJobContract = NoContract
          THEN /\ last'.ret = "false"
               /\ state' = state /\ idCounter' = idCounter /\ events' = << >>
          ELSE LET contractId == state.activeJobContract.id
                   removedCurrent == state.currentCar # NoCar
                                     /\ Tagged(state.currentCar, contractId)
                   rest == SelectSeq(state.carQueue, LAMBDA car : ~Tagged(car, contractId))
                   after == GarageCars(state')
               IN  /\ last'.ret = "true"
                   /\ \A i \in 1..Len(after) : ~Tagged(after[i], contractId)
                   /\ state'.activeJobContract = NoContract
                   /\ state'.contractsFailed = state.contractsFailed + 1
                   /\ state'.contractsCompleted = state.contractsCompleted
                   /\ IF removedCurrent /\ rest # << >>
                      THEN /\ state'.currentCar = Head(rest)
                           /\ state'.carQueue = Tail(rest)
                      ELSE IF removedCurrent
                      THEN /\ state'.currentCar = NoCar
                           /\ state'.carQueue = << >>
                      ELSE /\ state'.currentCar = state.currentCar
                           /\ state'.carQueue = rest
                   /\ HasEv(events', "JOB_FAILED", contractId)
      ]_vars

\* a contract was just abandoned whose car was on the lift with others waiting: the
\* front car was promoted (CAR_STARTED), no tagged car is left, the failure is counted
C20_Witness ==
    /\ last.op = "abandonContract" /\ last.ret = "true"
    /\ state.activeJobContract = NoContract
    /\ state.contractsFailed = 1
    /\ \E i \in 1..Len(events) : events[i].type = "CAR_STARTED"
    /\ state.currentCar # NoCar
    /\ state.carQueue # << >>
    /\ \A i \in 1..Len(GarageCars(state)) : GarageCars(state)[i].contractMeta = NoMeta

\* C21: the combo multiplier is >= 1 and <= maxCombo + comboMaxBonus in every state
\* reachable by any interleaving of clicks and ticks.
C21_ComboWithinBounds ==
    /\ comboMultiplier >= 100
    /\ comboMultiplier <= maxCombo + state.comboMaxBonus

\* the combo stands at its largest value after clicks have landed
C21_Witness ==
    /\ last.op = "click"
    /\ comboMultiplier = maxCombo
    /\ state.totalClicks >= 10

\* C22 as stated: with comboMaxBonus = b > 0 (Combo Instinct owned), every click on the
\* car that lands within the combo timeout of the previous one raises the combo
\* multiplier by the fixed gain per click, up to maxCombo + b (so that a run of such
\* clicks takes it above maxCombo).
C22_ComboCapExtended ==
    [][ (ClickUpTo(TRUE, MaxComboClicks)
           /\ state.currentCar # NoCar
           /\ state.comboMaxBonus > 0
           /\ now - lastClickTime < comboTimeout)
          => comboMultiplier'
               = Min(comboMultiplier + comboGainPerClick, maxCombo + state.comboMaxBonus)
      ]_vars

\* a click that lands on the car
ClickLands == ClickUpTo(TRUE, MaxComboClicks) /\ state.currentCar # NoCar

\* C23: if no click lands after some point, then from the first tick more than the combo
\* timeout after the last click the combo multiplier strictly decreases on every tick
\* while it is above 1 (and never below 1), and it eventually reaches 1 and stays there.
C23_ComboDecaysToOne ==
    /\ [][ \A deltaMs \in ComboTickDeltas :
             (Tick(deltaMs, SpawnPool) /\ now - lastClickTime > comboTimeout)
                => IF comboMultiplier > 100
                   THEN comboMultiplier' < comboMultiplier /\ comboMultiplier' >= 100
                   ELSE comboMultiplier' = 100
         ]_vars
    /\ (<>[][~ClickLands]_vars) => <>[](comboMultiplier = 100)

\* a tick has just taken the combo of ten clicks down, more than a second after the
\* last of them, and it is not yet back at 1
C23_Witness ==
    /\ last.op = "tick"
    /\ state.totalClicks >= 10
    /\ now - lastClickTime > comboTimeout
    /\ comboMultiplier = maxCombo - comboDecayRate

\* ceil(c / p)
CeilDiv(c, p) == (c + p - 1) \div p

\* the clicks a hatchback takes at the ledger's click power
ClicksPerCar(s) == CeilDiv(CarData["hatchback"].repairCost, s.clickPower)

\* C24: with click power p and the combo staying at 1 on every click, a car of repair
\* cost c and no prior progress becomes fully repaired on exactly the ceil(c / p)-th
\* click and not before (50 clicks for p = 1, c = 50), and that click pays
\* floor(baseValue * carValueMultiplier) before income multipliers (25 for a hatchback
\* at multiplier 1).
C24_ClicksToRepair ==
    /\ [](/\ comboMultiplier = 100
          /\ state.totalClicks >= ClicksPerCar(state) * state.carsRepaired
          /\ IF state.currentCar = NoCar
             THEN state.totalClicks = ClicksPerCar(state) * state.carsRepaired
             ELSE LET onThisCar == state.totalClicks
                                     - ClicksPerCar(state) * state.carsRepaired
                  IN  /\ onThisCar < ClicksPerCar(state)
                      /\ state.currentCar.repairProgress = state.clickPower * onThisCar
                      /\ state.currentCar.repairProgress < state.currentCar.repairCost)
    /\ [][ (ClickUpTo(TRUE, MaxRepairClicks) /\ state.currentCar # NoCar) =>
             LET car == state.currentCar
                 nth == state.totalClicks' - ClicksPerCar(state) * state.carsRepaired
             IN  IF nth = CeilDiv(car.repairCost, state.clickPower)
                 THEN /\ last'.ret = "repaired"
                      /\ state'.carsRepaired = state.carsRepaired + 1
                      /\ Len(RepairedEvents(events')) = 1
                      /\ RepairedEvents(events')[1].n
                           = (car.baseValue * getCarValueMultiplier(state)) \div 100
                      /\ (state.clickPower = 1 /\ state.carValueBonus = 0)
                           => (nth = 50 /\ RepairedEvents(events')[1].n = 25)
                 ELSE /\ last'.ret = "clicked"
                      /\ state'.carsRepaired = state.carsRepaired
                      /\ RepairedEvents(events') = << >>
         ]_vars

\* the 50th click at click power 1 has just repaired the hatchback and paid 25
C24_Witness ==
    /\ last.op = "click" /\ last.ret = "repaired"
    /\ state.clickPower = 1
    /\ state.totalClicks = 50
    /\ state.carsRepaired = 1
    /\ state.currentCar = NoCar
    /\ state.currency = 25
    /\ HasEv(events, "CAR_REPAIRED", 25)

\* C25 as stated: in each tick with a current car and at least one worker, the repair
\* progress added to the current car equals autoRepairRate * elapsedSeconds (clamped at
\* the repair cost, where the repair completes), autoRepairRate being the sum of the
\* workers' rates multiplied by autoRepairMultiplier.  Progress is compared in
\* hundredths of a point.
C25_ProgressAtMultipliedRate ==
    [][ \A deltaMs \in CrewTickDeltas :
          (Tick(deltaMs, SpawnPool) /\ state.currentCar # NoCar /\ state.workers # << >>)
            => LET car == state.currentCar
                   rate == SumSeq([i \in 1..Len(state.workers) |->
                                      WorkerData[state.workers[i]].repairRate])
                             * state.autoRepairMultiplier
                   added == (rate * deltaMs) \div 1000
               IN  /\ state.autoRepairRate = rate
                   /\ IF car.repairProgress * 100 + added >= car.repairCost * 100
                      THEN last'.ret = "done"
                      ELSE /\ last'.ret # "done"
                           /\ state'.currentCar.repairProgress * 100
                                = car.repairProgress * 100 + added
      ]_vars

\* C26 as stated: the spawn interval used by the queue engine equals
\* max(minInterval, baseInterval * (1 - workerCountBonus) * queueSpawnMultiplier), for
\* the worker count and the Quick Dispatch level of every reachable ledger (so that a
\* queueSpawnMultiplier below 1 shortens the interval whenever the result is above
\* minInterval).  queueSpawnMultiplier is read to four decimals, which is exact up to
\* Quick Dispatch level 2.
C26_SpawnIntervalScaled ==
    LET workerBonus == Min(Len(state.workers) * 5, 75)
        interval == (baseSpawnInterval * (100 - workerBonus)) \div 100
        scaled == (interval * (state.queueSpawnMultiplier \div 10000)) \div 10000
    IN  /\ getSpawnInterval(state) = Max(minSpawnInterval, scaled)
        /\ (state.queueSpawnMultiplier < 100000000 /\ scaled > minSpawnInterval)
              => getSpawnInterval(state) < interval

\* C27 as stated: for every reachable state, deserialize(serialize(state)) yields the
\* same currency, XP, level, tier, upgrade levels, worker roster, offers and active
\* contract, and for every car in currentCar and carQueue the same id, tier, repairCost,
\* repairProgress and contract tag, including contract cars whose repair cost was scaled
\* by the contract's repair multiplier; repairProgress stays <= repairCost for every
\* restored car.
C27_RoundTrip ==
    LET loaded == deserialize(reset, serialize(state))
        before == GarageCars(state)
        after  == GarageCars(loaded)
    IN  /\ loaded.currency = state.currency
        /\ loaded.garageXP = state.garageXP
        /\ loaded.garageLevel = state.garageLevel
        /\ loaded.currentTier = state.currentTier
        /\ loaded.upgrades = state.upgrades
        /\ loaded.nipUpgrades = state.nipUpgrades
        /\ loaded.workers = state.workers
        /\ loaded.jobContracts = state.jobContracts
        /\ loaded.activeJobContract = state.activeJobContract
        /\ (loaded.currentCar = NoCar) = (state.currentCar = NoCar)
        /\ Len(loaded.carQueue) = Len(state.carQueue)
        /\ \A i \in 1..Len(before) :
              /\ after[i].id = before[i].id
              /\ after[i].tier = before[i].tier
              /\ after[i].repairCost = before[i].repairCost
              /\ after[i].repairProgress = before[i].repairProgress
              /\ after[i].contractMeta = before[i].contractMeta
              /\ after[i].repairProgress <= after[i].repairCost

-----------------------------------------------------------------------------
\* C28: after reconcileAfterLoad, an active contract whose deadline has passed is
\* cleared and counted as failed exactly once (contractsFailed goes up by one and
\* one JOB_FAILED event is published); an active contract still in time stays the
\* active one and some car in currentCar or carQueue carries its id.
C28_ReconcileAfterLoad ==
    [][ReconcileAfterLoad /\ state.activeJobContract # NoContract =>
         IF now > state.activeJobContract.expiresAt
         THEN /\ state'.activeJobContract = NoContract
              /\ state'.contractsFailed = state.contractsFailed + 1
              /\ CountEv(events', "JOB_FAILED") = 1
         ELSE /\ state'.activeJobContract = state.activeJobContract
              /\ state'.contractsFailed = state.contractsFailed
              /\ \E i \in 1..Len(GarageCars(state')) :
                     Tagged(GarageCars(state')[i], state.activeJobContract.id)]_vars

\* a loaded contract, 62 s after it was accepted for 61 s, has just been failed by
\* the reconciliation
C28_Witness ==
    /\ last.op = "reconcileAfterLoad"
    /\ last.ret = "expired"
    /\ state.activeJobContract = NoContract
    /\ state.contractsFailed = 1
    /\ now >= 62000

-----------------------------------------------------------------------------
\* C29: a load that grants offline earnings credits them as addCurrency does:
\* currency, totalEarned and lifetimeEarnings all go up by the same amount, and
\* lifetimeEarnings >= totalEarned holds after the load.
C29_OfflineEarningsCredited ==
    [][(\E away \in LoadAways : ContinueFromSave(away)) /\ last'.ret = "earned" =>
         LET credited == state'.currency - state.currency
         IN  /\ credited > 0
             /\ state'.totalEarned - state.totalEarned = credited
             /\ state'.lifetimeEarnings - state.lifetimeEarnings = credited
             /\ state'.lifetimeEarnings >= state'.totalEarned]_vars

-----------------------------------------------------------------------------
\* C30: an open offer does not stay on the board forever: the job board update at
\* which the refresh interval has accumulated replaces every offer that was open
\* with a newly generated one.
C30_RefreshReplacesOffers ==
    [][\A deltaMs \in JobDeltas :
          JobBoardUpdate(deltaMs) /\ refreshTimer + deltaMs >= refreshInterval =>
              /\ refreshTimer' = 0
              /\ OfferIds(state') \cap OfferIds(state) = {}]_vars

-----------------------------------------------------------------------------
\* C31: every event fires after the change it announces is applied: when
\* CAR_REPAIRED fires the repaired car is no longer currentCar, and when XP_EARNED
\* fires garageLevel is the level of the garageXP it reports.
C31_EmitAfterMutation ==
    \A i \in 1..Len(events) :
       /\ events[i].type = "CAR_REPAIRED" => ~events[i].held
       /\ events[i].type = "XP_EARNED" =>
              events[i].snap = calculateLevelFromXP(events[i].totalXP)

-----------------------------------------------------------------------------
\* C32: every tick runs combo decay, worker accrual, queue spawn/assign and the
\* contract expiry check, once each and in that order: after a tick the combo has
\* decayed by this tick's step, the refresh timer of the job board has taken the
\* tick's time, and an active contract that was past its deadline is no longer
\* active and has been counted as failed.
C32_TickRunsAllFour ==
    [][\A deltaMs \in TickDeltas :
          Tick(deltaMs, SpawnPool) =>
              /\ comboMultiplier' = ClickUpdate(comboMultiplier, lastClickTime, deltaMs, now)
              /\ refreshTimer' = IF refreshTimer + deltaMs >= refreshInterval THEN 0
                                 ELSE refreshTimer + deltaMs
              /\ (state.activeJobContract # NoContract
                  /\ now > state.activeJobContract.expiresAt) =>
                     /\ state'.activeJobContract = NoContract
                     /\ state'.contractsFailed = state.contractsFailed + 1]_vars

-----------------------------------------------------------------------------
\* C33: every frame of a running, unpaused loop adds min(frameTime, maxFrameTime) to
\* the accumulator and calls update once per whole timestep in it, leaving
\* 0 <= accumulator < timestep; the updates of one frame are bounded and what
\* render receives is in [0, 1) of a timestep; a paused frame calls update zero
\* times and leaves the accumulator alone.
C33_FixedTimestep ==
    /\ [](/\ 0 <= gameLoop.accumulator /\ gameLoop.accumulator < timestep
          /\ 0 <= gameLoop.rendered /\ gameLoop.rendered < timestep
          /\ gameLoop.updates <= (maxFrameTime + timestep - 1) \div timestep)
    /\ [][Loop /\ gameLoop.running =>
            IF gameLoop.paused
            THEN /\ gameLoop'.updates = 0
                 /\ gameLoop'.rendered = 0
                 /\ gameLoop'.accumulator = gameLoop.accumulator
            ELSE LET frameTime == Min(gameLoop.clock - gameLoop.lastTime, maxFrameTime)
                 IN  /\ gameLoop'.updates * timestep + gameLoop'.accumulator
                            = gameLoop.accumulator + frameTime
                     /\ gameLoop'.rendered = gameLoop'.accumulator]_vars

\* a frame that came 810 thirds of a millisecond after the last one, with 30 in the
\* accumulator: 15 updates, 30 left
C33_Witness ==
    /\ last.op = "loop"
    /\ gameLoop.running /\ ~gameLoop.paused
    /\ gameLoop.lastTime = gameLoop.clock
    /\ gameLoop.updates = 15
    /\ gameLoop.accumulator = 30

-----------------------------------------------------------------------------
\* C34: a handler registered with EventBus.once is called at most once over the
\* whole run, also when it emits the same event again from inside the call and
\* when it throws.
C34_OnceAtMostOnce ==
    \A id \in 1..Len(eventBus.calls) : eventBus.calls[id].once => eventBus.calls[id].n <= 1

-----------------------------------------------------------------------------
\* C35: Game.reset(true) leaves prestigeCurrency, totalPrestigeEarned and
\* nipUpgrades as they were, and returns the run-scoped fields to their defaults.
C35_ResetKeepsPrestige ==
    [][GameReset(TRUE) =>
          /\ state'.prestigeCurrency = state.prestigeCurrency
          /\ state'.totalPrestigeEarned = state.totalPrestigeEarned
          /\ state'.nipUpgrades = state.nipUpgrades
          /\ state'.currency = 0 /\ state'.totalEarned = 0 /\ state'.totalSpent = 0
          /\ state'.upgrades = reset.upgrades /\ state'.workers = <<>>
          /\ state'.garageXP = 0 /\ state'.garageLevel = 1]_vars

-----------------------------------------------------------------------------
\* the contracts resolved or still active
Resolved(s) ==
    s.contractsCompleted + s.contractsFailed
        + (IF s.activeJobContract # NoContract THEN 1 ELSE 0)

\* C36: every accepted contract is resolved exactly once: contractsCompleted +
\* contractsFailed + (1 if a contract is active) starts at 0, goes up by one with
\* every successful acceptContract and is left alone by every other operation.
C36_ResolvedExactlyOnce ==
    /\ Resolved(state) = 0
    /\ [](Resolved(state) = idCounter - maxContracts)
    /\ [][Resolved(state') - Resolved(state)
             = IF last'.op = "acceptContract" /\ last'.ret = "true"
                  /\ idCounter' = idCounter + 1 THEN 1 ELSE 0]_vars

\* the car of an expired first contract has just been repaired while the second
\* contract is active
C36_Witness ==
    /\ last.op \in {"click", "tick"}
    /\ state.contractsFailed = 1
    /\ state.activeJobContract # NoContract
    /\ \E i \in 1..Len(events) :
          /\ events[i].type = "CAR_REPAIRED"
          /\ events[i].snap \notin {0, state.activeJobContract.id}

-----------------------------------------------------------------------------
\* C37: while a contract is active, a car tagged with its id and not marked
\* expired is on the lift or in the queue.
ActiveContractCars(s) ==
    {i \in 1..Len(GarageCars(s)) :
        /\ Tagged(GarageCars(s)[i], s.activeJobContract.id)
        /\ ~GarageCars(s)[i].contractMeta.expired}

C37_ActiveContractHasCar ==
    state.activeJobContract # NoContract => ActiveContractCars(state) # {}

\* a contract was accepted with a car on the lift and the queue is full behind the
\* contract car
C37_Witness ==
    /\ last.op = "acceptContract" /\ last.ret = "true"
    /\ state.currentCar # NoCar /\ ~Tagged(state.currentCar, state.activeJobContract.id)
    /\ Len(state.carQueue) = maxQueueSize
    /\ Tagged(state.carQueue[1], state.activeJobContract.id)

-----------------------------------------------------------------------------
\* C38: within a run currency is what was earned less what was spent:
\* currency = totalEarned - totalSpent in every state.
C38_CurrencyBalance ==
    state.currency = state.totalEarned - state.totalSpent

\* offline earnings were just credited to a ledger that has also spent
C38_Witness ==
    /\ last.op = "continueFromSave" /\ last.ret = "earned"
    /\ state.totalSpent > 0
    /\ state.currency > 0
    /\ \E i \in 1..Len(events) : events[i].type = "OFFLINE_EARNINGS" /\ events[i].n > 0

-----------------------------------------------------------------------------
\* C39: right after a successful prestige() nothing is claimable and a second
\* prestige() is refused, whatever Nip was spent in the Nip shop; the Nip held
\* plus the Nip spent on Nip upgrades never exceeds
\* floor(sqrt(lifetimeEarnings / baseCost)), so no earnings are converted twice.
RECURSIVE NipSpent(_, _)
NipSpent(s, ids) ==
    IF ids = {} THEN 0
    ELSE LET upgradeId == CHOOSE id \in ids : TRUE
         IN  SumSeq(SubSeq(NipUpgradeData[upgradeId].cost, 1, s.nipUpgrades[upgradeId]))
                + NipSpent(s, ids \ {upgradeId})

C39_NoDoubleClaim ==
    /\ [](state.prestigeCurrency + NipSpent(state, NipUpgradeIds)
              <= SqrtSearch(0, state.lifetimeEarnings \div baseCost))
    /\ [][ (last'.op = "prestige" /\ last'.ret = "true") =>
               /\ calculateClaimableNip(state') = 0
               /\ prestige(World(state', idCounter')).ret = "false"
               /\ prestige(World(state', idCounter')).s = state'
         ]_vars

\* a second reset was taken after Nip from the first had been spent in the Nip shop
C39_Witness ==
    /\ last.op = "prestige" /\ last.ret = "true"
    /\ state.totalPrestigeEarned = 2
    /\ state.prestigeCurrency = 1
    /\ \E upgradeId \in NipUpgradeIds : state.nipUpgrades[upgradeId] > 0

-----------------------------------------------------------------------------
\* C40: at the end of every tick currentCar is null only if carQueue is empty; and
\* from any state with no current car, while update keeps being called (the model
\* stops calling it after MaxRepairs finished repairs), currentCar eventually is
\* non-null.
C40_LiftRefilled ==
    /\ [][ last'.op = "tick" =>
               (state'.currentCar = NoCar => Len(state'.carQueue) = 0) ]_vars
    /\ ((state.currentCar = NoCar /\ last.n < MaxRepairs) ~> state.currentCar # NoCar)

\* a tick brought a car onto the lift that a prestige reset had emptied
C40_Witness ==
    /\ last.op = "tick"
    /\ state.currentCar # NoCar
    /\ state.totalPrestigeEarned >= 1
    /\ \E i \in 1..Len(events) : events[i].type = "CAR_STARTED"

====
